---------------------------- MODULE Spec2Model ----------------------------
(***************************************************************************)
(* Banana World: the scene model, the generation pipelines and the         *)
(* pointer / touch / wheel / keyboard interaction controller of            *)
(* src/App.tsx, with the generation client of src/services/geminiService.  *)
(*                                                                         *)
(* Numbers of the program are JavaScript doubles.  They are modelled as    *)
(* exact rationals <<n, d>> (d > 0, lowest terms), so that clamping,       *)
(* aspect ratios and coordinate conversions are computed as the code       *)
(* computes them, without rounding.                                        *)
(*                                                                         *)
(* React state is modelled twice: the state proper (images,                *)
(* selectedImageId: what a functional updater receives as `prev`) and the  *)
(* state as of the last render (rImages, rSelectedImageId: what the        *)
(* handlers' closures read).  A state update made inside a user-event      *)
(* handler is rendered before the next event; an update made by an async   *)
(* continuation (a generation pipeline, the code after an await) is        *)
(* rendered by a later Render step, so a user event can run in between.    *)
(***************************************************************************)
EXTENDS Integers, Sequences, FiniteSets, TLC

(***************************************************************************)
(* Exact rational arithmetic.                                              *)
(***************************************************************************)
RECURSIVE Gcd(_, _)
Gcd(a, b) == IF b = 0 THEN a ELSE Gcd(b, a % b)

Abs(n) == IF n < 0 THEN -n ELSE n

\* <<n, d>> in lowest terms with a positive denominator (d # 0).
Norm(n, d) ==
    LET g == Gcd(Abs(n), Abs(d))
        s == IF d < 0 THEN -1 ELSE 1
    IN  <<s * (n \div g), s * (d \div g)>>

R(n) == <<n, 1>>
RAdd(a, b) == Norm(a[1] * b[2] + b[1] * a[2], a[2] * b[2])
RSub(a, b) == Norm(a[1] * b[2] - b[1] * a[2], a[2] * b[2])
\* Cross-cancelled so that intermediate products stay small.
RMul(a, b) ==
    LET p == Norm(a[1], b[2])
        q == Norm(b[1], a[2])
    IN  <<p[1] * q[1], p[2] * q[2]>>
RDiv(a, b) == RMul(a, Norm(b[2], b[1]))
RLt(a, b) == a[1] * b[2] < b[1] * a[2]
RLe(a, b) == a[1] * b[2] <= b[1] * a[2]
RMax(a, b) == IF RLt(a, b) THEN b ELSE a
RMin(a, b) == IF RLt(b, a) THEN b ELSE a
RHalf(a) == RDiv(a, R(2))

(***************************************************************************)
(* Program constants (src/App.tsx).                                        *)
(***************************************************************************)
IMAGE_WIDTH == 375
MOVE_AMOUNT == 25
MIN_WIDTH == 50
MAX_WIDTH == 1000
\* MIN_SCALE = 0.2 and MAX_SCALE = 3.0
MIN_SCALE == <<1, 5>>
MAX_SCALE == <<3, 1>>
PLACEHOLDER_WIDTH == 250
\* The placeholder height of a dropped image (height: 200).
PLACEHOLDER_HEIGHT_IMAGE == 200
\* SCALE_SPEED = 0.1: the wheel factor is 1 + direction * 0.1.
SCALE_SPEED == <<1, 10>>
\* scaleAmount = 1.1 of the canvas zoom.
scaleAmount == <<11, 10>>
\* result.prompts.slice(0, 5)
MaxSuggestions == 5
COLOR_DISTANCE_THRESHOLD == 20

(***************************************************************************)
(* The environment: the canvas fills the window (rect.left = rect.top = 0)*)
(* and every input is drawn from a small set.                              *)
(***************************************************************************)
\* canvas.width / canvas.height = window.innerWidth / innerHeight.
CanvasWidth == 800
CanvasHeight == 600

\* Screen points of pointer, wheel and touch-midpoint events: the canvas
\* centre, where new objects are placed, and a point far from every object.
CanvasCentre == <<CanvasWidth \div 2, CanvasHeight \div 2>>
FarPoint == <<40, 30>>
ScreenPoints == {CanvasCentre, FarPoint}
\* A point inside the placeholder of an object made at the canvas centre,
\* and inside the transparent padding of its completed square image.
PaddingPoint == <<290, 190>>
HitPoints == {CanvasCentre, PaddingPoint}

\* Distances between the two touch points of a pinch (Math.hypot, > 0 for
\* two distinct contacts): ratios of 1, 8 and 1/8, enough to pass both ends
\* of the width range and of the scale range in one move.
TouchDistances == {50, 400}

\* scaleDirection of a wheel event: 1 (deltaY < 0, up) or -1 (down).
ScaleDirections == {1, -1}
ScaleUp == {1}

\* Native pixel sizes <<width, height>> of the images the model returns.
SquareImage == <<1024, 1024>>
WideImage == <<1536, 1024>>
GeneratedImages == {SquareImage, WideImage}
\* An image narrower than the width objects are displayed at.
SmallImage == <<300, 200>>

\* Lengths of the `prompts` array in the suggestion response: none, and more
\* than are kept.
NoPrompts == {0}
SuggestionCounts == NoPrompts \cup {7}

\* Pixels <<r, g, b, a>>: white, a white within the threshold of it
\* (squared distance 125), black, and a black that is already transparent.
White == <<255, 255, 255, 255>>
NearWhite == <<245, 250, 255, 255>>
Black == <<0, 0, 0, 255>>
ClearBlack == <<0, 0, 0, 0>>
Palette == {White, NearWhite, Black, ClearBlack}

\* Thresholds below, at and above the code's.
Thresholds == {5, COLOR_DISTANCE_THRESHOLD, 450}

\* Typed prompts and dropped files.
Texts == {"banana"}
Files == {"photo"}
RemixPrompts == {"make it red"}

(***************************************************************************)
(* Bounds of the model.                                                    *)
(***************************************************************************)
\* Objects ever created: ids 0 .. MaxObjects - 1.
MaxObjects == 2
\* Objects ever created where they are scaled, pinched and zoomed.
MaxScaledObjects == 1
\* User gestures that change geometry or the view (move, wheel, pinch
\* move, arrow key).
MaxGestures == 2
\* Regenerate requests.
MaxRegenerations == 1
\* Handlers suspended at an await at the same time.
MaxPending == 1
\* The size of the images the transparency processor is run on.
PixelsWide == 3
PixelsHigh == 2

NoImage == <<0, 0>>
NoId == -1
\* remixSuggestions: undefined
NoSuggestions == -1

VARIABLES
    images,             \* useState<ProcessedImage[]>: the scene, in z-order
    selectedImageId,    \* useState<number | null>
    rImages,            \* images as of the last render (closures)
    rSelectedImageId,   \* selectedImageId as of the last render
    nextId,             \* nextId.current
    draggingImage,      \* {id, offsetX, offsetY} | null
    isPanning,
    panStart,
    viewTransform,      \* {scale, offsetX, offsetY}
    pinchState,
    touches,            \* e.touches.length: touch points on the canvas
    pipelines,          \* generation pipelines in flight, oldest first
    pending,            \* handlers suspended at an await, oldest first
    previewImageCache,  \* keys of previewImageCache.current
    originalImageCache, \* keys of originalImageCache.current
    gestures,           \* gestures so far (bounded by MaxGestures)
    regenerations,      \* regenerate requests so far
    processing          \* one call of processImageForTransparency

vars == <<images, selectedImageId, rImages, rSelectedImageId, nextId,
          draggingImage, isPanning, panStart, viewTransform, pinchState,
          touches, pipelines, pending, previewImageCache,
          originalImageCache, gestures, regenerations, processing>>

Null == [none |-> TRUE]

(***************************************************************************)
(* Helpers on the scene.                                                   *)
(***************************************************************************)
Ids(imgs) == {imgs[i].id : i \in 1..Len(imgs)}

\* images.find(img => img.id === id)
Find(imgs, id) ==
    IF id \in Ids(imgs)
    THEN imgs[CHOOSE i \in 1..Len(imgs) :
                  imgs[i].id = id /\ \A j \in 1..(i - 1) : imgs[j].id # id]
    ELSE Null

\* prev.filter(img => img.id !== id)
Without(imgs, id) == SelectSeq(imgs, LAMBDA img : img.id # id)

\* const selectedImage = useMemo(...): read from the rendered state.
selectedImage == Find(rImages, rSelectedImageId)

\* A guard that would look at the selection only (not the code's guard).
isActionDisabledBySelectionOnly == selectedImage = Null

\* const isActionDisabled = !selectedImage || selectedImage.isGenerating
isActionDisabled ==
    IF selectedImage = Null THEN TRUE ELSE selectedImage.isGenerating

\* (screenX - viewTransform.offsetX) / viewTransform.scale
WorldX(sx, vt) == RDiv(RSub(sx, vt.offsetX), vt.scale)
WorldY(sy, vt) == RDiv(RSub(sy, vt.offsetY), vt.scale)

Rect(x, y, w, h) == [x |-> x, y |-> y, width |-> w, height |-> h]

(***************************************************************************)
(* Render: the component function runs again, the handlers' closures see   *)
(* the current state, and the cleanup effect of the caches runs.           *)
(***************************************************************************)
PreviewUrls(imgs) ==
    {imgs[i].sourcePreviewUrl : i \in 1..Len(imgs)} \ {NoId}

\* The effect on [images]: revoke the blob urls that left the scene and drop
\* their thumbnails; drop the original images of the ids that left.
CleanupPreview(prev, cur, cache) ==
    cache \ (PreviewUrls(prev) \ PreviewUrls(cur))

CleanupOriginal(prev, cur, cache) == cache \ (Ids(prev) \ Ids(cur))

\* The render that follows a state update: imgs and sel are the new state,
\* pc and oc the caches as the handler left them.
Rendered(imgs, sel, pc, oc) ==
    /\ rImages' = imgs
    /\ rSelectedImageId' = sel
    /\ previewImageCache' = CleanupPreview(rImages, imgs, pc)
    /\ originalImageCache' = CleanupOriginal(rImages, imgs, oc)

Render ==
    /\ <<rImages, rSelectedImageId>> # <<images, selectedImageId>>
    /\ Rendered(images, selectedImageId, previewImageCache, originalImageCache)
    /\ UNCHANGED <<images, selectedImageId, nextId, draggingImage, isPanning,
                   panStart, viewTransform, pinchState, touches, pipelines,
                   pending, gestures, regenerations, processing>>

(***************************************************************************)
(* processImageForTransparency.  An image is its width, its height and    *)
(* its RGBA pixels in row order, as getImageData returns them; pixel k    *)
(* (from 1) is at x = (k - 1) % width, y = (k - 1) \div width.            *)
(***************************************************************************)
NotProcessing == [stage |-> "idle"]

\* (r - bgR) ** 2 + (g - bgG) ** 2 + (b - bgB) ** 2
DistanceSquared(p, bg) ==
    (p[1] - bg[1]) * (p[1] - bg[1]) + (p[2] - bg[2]) * (p[2] - bg[2])
      + (p[3] - bg[3]) * (p[3] - bg[3])

\* The first loop with the comparison turned around (not the code's <).
KeyedOutFar(data, threshold) ==
    [k \in DOMAIN data |->
        IF DistanceSquared(data[k], data[1]) > threshold * threshold
        THEN <<data[k][1], data[k][2], data[k][3], 0>>
        ELSE data[k]]

\* The first loop: data[i + 3] = 0 where the squared distance to the
\* top-left pixel is below the squared threshold.
KeyedOut(data, threshold) ==
    [k \in DOMAIN data |->
        IF DistanceSquared(data[k], data[1]) < threshold * threshold
        THEN <<data[k][1], data[k][2], data[k][3], 0>>
        ELSE data[k]]

\* A scan that would count every pixel, transparent or not (not the
\* code's, which tests alpha > 0).
RECURSIVE ScanEveryPixel(_, _, _, _)
ScanEveryPixel(data, width, k, acc) ==
    IF k > Len(data) THEN acc
    ELSE LET x == (k - 1) % width
             y == (k - 1) \div width
         IN  ScanEveryPixel(data, width, k + 1,
                 [minX |-> IF x < acc.minX THEN x ELSE acc.minX,
                  maxX |-> IF x > acc.maxX THEN x ELSE acc.maxX,
                  minY |-> IF y < acc.minY THEN y ELSE acc.minY,
                  maxY |-> IF y > acc.maxY THEN y ELSE acc.maxY])

\* The second loop, from pixel k on: minX, minY, maxX, maxY.
RECURSIVE ScanBounds(_, _, _, _)
ScanBounds(data, width, k, acc) ==
    IF k > Len(data) THEN acc
    ELSE LET x == (k - 1) % width
             y == (k - 1) \div width
             next == IF data[k][4] > 0
                     THEN [minX |-> IF x < acc.minX THEN x ELSE acc.minX,
                           maxX |-> IF x > acc.maxX THEN x ELSE acc.maxX,
                           minY |-> IF y < acc.minY THEN y ELSE acc.minY,
                           maxY |-> IF y > acc.maxY THEN y ELSE acc.maxY]
                     ELSE acc
         IN  ScanBounds(data, width, k + 1, next)

FullExtent(img) == Rect(0, 0, img.width, img.height)

\* Bounds that would fall back to an empty rectangle (not the code's
\* fallback to the full canvas).
TightBoundsOrEmpty(img, data) == 
    LET b == ScanBounds(data, img.width, 1,
                        [minX |-> img.width, minY |-> img.height,
                         maxX |-> -1, maxY |-> -1])
    IN  IF b.maxX >= b.minX /\ b.maxY >= b.minY
        THEN Rect(b.minX, b.minY, b.maxX - b.minX + 1, b.maxY - b.minY + 1)
        ELSE Rect(0, 0, 0, 0)

\* let minX = canvas.width, minY = canvas.height, maxX = -1, maxY = -1; the
\* scan; then the tight box, or the full canvas when nothing is opaque.
TightBounds(img, data) ==
    LET b == ScanBounds(data, img.width, 1,
                        [minX |-> img.width, minY |-> img.height,
                         maxX |-> -1, maxY |-> -1])
    IN  IF b.maxX >= b.minX /\ b.maxY >= b.minY
        THEN Rect(b.minX, b.minY, b.maxX - b.minX + 1, b.maxY - b.minY + 1)
        ELSE FullExtent(img)

\* The bounding box the processor computes with a given threshold.
BoundsWith(img, threshold) ==
    TightBounds(img, KeyedOut(img.data, threshold))

Settled(stage, img, data, bounds, failure) ==
    [stage |-> stage, image |-> img, transparentImage |-> data,
     contentBounds |-> bounds, failure |-> failure]

\* resolve({ transparentImage: img, contentBounds: { x: 0, y: 0, width:
\* img.width, height: img.height } })
ResolvedWithOriginal(img, failure) ==
    Settled("resolved", img, img.data, FullExtent(img), failure)

\* reject(err): the promise rejects, nothing is returned.
Rejected(img, failure) ==
    Settled("rejected", img, img.data, FullExtent(img), failure)

ProcessorFrame ==
    UNCHANGED <<images, selectedImageId, rImages, rSelectedImageId, nextId,
                draggingImage, isPanning, panStart, viewTransform, pinchState,
                touches, pipelines, pending, previewImageCache,
                originalImageCache, gestures, regenerations>>

\* img.onerror = (err) => reject(err)
ImageFailsToLoad ==
    /\ processing.stage = "loading"
    /\ processing' = Rejected(processing.image, "load")
    /\ ProcessorFrame

\* if (!ctx) return reject(new Error('Could not get 2d context'))
NoContext ==
    /\ processing.stage = "loading"
    /\ processing' = Rejected(processing.image, "context")
    /\ ProcessorFrame

\* getImageData (or anything after it in the try block) throws: the catch
\* resolves with the image as loaded and its full extent.
PixelReadFails ==
    /\ processing.stage = "loading"
    /\ processing' = ResolvedWithOriginal(processing.image, "read")
    /\ ProcessorFrame

\* img.onload ran to the end of its try block: the pixels are keyed out,
\* the bounds scanned, and the re-encoded image starts loading.
ImageProcessed ==
    /\ processing.stage = "loading"
    /\ LET data == KeyedOut(processing.image.data, COLOR_DISTANCE_THRESHOLD)
       IN  processing' = Settled("encoding", processing.image, data,
                                 TightBounds(processing.image, data), "none")
    /\ ProcessorFrame

\* transparentImage.onload: resolve({ transparentImage, contentBounds })
EncodedImageLoads ==
    /\ processing.stage = "encoding"
    /\ processing' = [processing EXCEPT !.stage = "resolved"]
    /\ ProcessorFrame

\* transparentImage.onerror = (err) => reject(err)
EncodedImageFailsToLoad ==
    /\ processing.stage = "encoding"
    /\ processing' = Rejected(processing.image, "encode")
    /\ ProcessorFrame

(***************************************************************************)
(* Generation pipelines: generateFromImage and generateFromText.  A        *)
(* pipeline is suspended at one of its four awaits.                        *)
(***************************************************************************)
NewPipeline(id, kind, source, prompt) ==
    [id |-> id, kind |-> kind, source |-> source, prompt |-> prompt,
     stage |-> "generate", imageUrl |-> NoImage,
     contentBounds |-> Rect(R(0), R(0), R(0), R(0))]

RemoveAt(s, i) == SubSeq(s, 1, i - 1) \o SubSeq(s, i + 1, Len(s))

\* The bounding box processImageForTransparency returns for an image: the
\* sprite of a square image fills the middle half, the sprite of a wide
\* image touches every edge (the full extent).
ContentBoundsOf(img) ==
    IF img[1] = img[2]
    THEN Rect(R(img[1] \div 4), R(img[2] \div 4),
              R(img[1] \div 2), R(img[2] \div 2))
    ELSE Rect(R(0), R(0), R(img[1]), R(img[2]))

\* Every prompt of the response (not the code's, which keeps five).
getRemixSuggestionsUncut(ok, prompts) == IF ok THEN prompts ELSE 0

\* What getRemixSuggestions resolves with: result.prompts.slice(0, 5), and
\* [] when the request or the parse throws inside its try block.
getRemixSuggestions(ok, prompts) ==
    IF ok /\ prompts > 0
    THEN (IF prompts > MaxSuggestions THEN MaxSuggestions ELSE prompts)
    ELSE 0

\* The updater of the completion: prev.map(img => img.id !== id ? img : ...)
Completed(img, p, suggestions) ==
    LET aspectRatio == Norm(p.imageUrl[1], p.imageUrl[2])
        newWidth == R(IMAGE_WIDTH)
        newHeight == RDiv(R(IMAGE_WIDTH), aspectRatio)
        currentCenterX == RAdd(img.x, RHalf(img.width))
        currentCenterY == RAdd(img.y, RHalf(img.height))
        base == [img EXCEPT
                   !.processedImage = p.imageUrl,
                   !.originalImageUrl = p.imageUrl,
                   !.showOriginal = FALSE,
                   !.contentBounds = p.contentBounds,
                   !.width = newWidth,
                   !.height = newHeight,
                   !.x = RSub(currentCenterX, RHalf(newWidth)),
                   !.y = RSub(currentCenterY, RHalf(newHeight)),
                   !.isGenerating = FALSE,
                   !.remixSuggestions = suggestions]
    IN  IF p.kind = "image"
        THEN [base EXCEPT !.sourcePreviewUrl = NoId, !.generatingPrompt = ""]
        ELSE base

\* A completion that would not look at the id (not the code's updater,
\* which leaves the objects of every other id as they are).
CompleteEvery(imgs, p, suggestions) ==
    [i \in 1..Len(imgs) |-> Completed(imgs[i], p, suggestions)]

CompleteIn(imgs, p, suggestions) ==
    [i \in 1..Len(imgs) |->
        IF imgs[i].id # p.id THEN imgs[i]
        ELSE Completed(imgs[i], p, suggestions)]

\* A catch block that would clear the scene (not the code's filter by id).
FailClearing(imgs, id) == SubSeq(imgs, 1, 0)

\* catch (e) { setImages(prev => prev.filter(img => img.id !== id)) }
FailIn(imgs, id) == Without(imgs, id)

PipelineFrame ==
    UNCHANGED <<selectedImageId, rImages, rSelectedImageId, nextId,
                draggingImage, isPanning, panStart, viewTransform, pinchState,
                touches, pending, previewImageCache, gestures, regenerations,
                processing>>

\* await generateImageWithPrompt / generateImageFromText resolved with an
\* image; the original is cached under the id.
GenerateResolves(generated) ==
    \E i \in 1..Len(pipelines) :
        /\ pipelines[i].stage = "generate"
        /\ \E img \in generated :
             pipelines' = [pipelines EXCEPT ![i].stage = "transparency",
                                            ![i].imageUrl = img]
        /\ originalImageCache' = originalImageCache \cup {pipelines[i].id}
        /\ UNCHANGED images
        /\ PipelineFrame

\* await processImageForTransparency resolved.
TransparencyResolves ==
    \E i \in 1..Len(pipelines) :
        /\ pipelines[i].stage = "transparency"
        /\ pipelines' = [pipelines EXCEPT
                          ![i].stage = "toFile",
                          ![i].contentBounds = ContentBoundsOf(pipelines[i].imageUrl)]
        /\ UNCHANGED <<images, originalImageCache>>
        /\ PipelineFrame

\* await imageElementToFile resolved.
ToFileResolves ==
    \E i \in 1..Len(pipelines) :
        /\ pipelines[i].stage = "toFile"
        /\ pipelines' = [pipelines EXCEPT ![i].stage = "suggestions"]
        /\ UNCHANGED <<images, originalImageCache>>
        /\ PipelineFrame

\* await getRemixSuggestions resolved (with [] when its request or its
\* parse failed): the completion is applied.
SuggestionsResolve(counts) ==
    \E i \in 1..Len(pipelines) :
        /\ pipelines[i].stage = "suggestions"
        /\ \E ok \in BOOLEAN, n \in counts :
             images' = CompleteIn(images, pipelines[i], getRemixSuggestions(ok, n))
        /\ pipelines' = RemoveAt(pipelines, i)
        /\ UNCHANGED originalImageCache
        /\ PipelineFrame

\* The stages whose await can reject into the catch block of the pipeline:
\* the generation request (rejected, or no image returned), the image
\* decode of processImageForTransparency, imageElementToFile, and the
\* FileReader of getRemixSuggestions, which runs before its try block.
ThrowingStages == {"generate", "transparency", "toFile", "suggestions"}

PipelineFails ==
    \E i \in 1..Len(pipelines) :
        /\ pipelines[i].stage \in ThrowingStages
        /\ images' = FailIn(images, pipelines[i].id)
        /\ pipelines' = RemoveAt(pipelines, i)
        /\ UNCHANGED originalImageCache
        /\ PipelineFrame

\* One await of one pipeline settles: it rejects, or it resolves.
PipelineStep(generated, counts) ==
    \/ PipelineFails
    \/ GenerateResolves(generated)
    \/ TransparencyResolves
    \/ ToFileResolves
    \/ SuggestionsResolve(counts)

(***************************************************************************)
(* Hit-testing: getImageAtPosition, over the rendered scene.               *)
(***************************************************************************)
InRect(px, py, x, y, w, h) ==
    /\ RLe(x, px) /\ RLe(px, RAdd(x, w))
    /\ RLe(y, py) /\ RLe(py, RAdd(y, h))

\* A test of the rectangle alone (not the code's test, which goes on to
\* the content bounds).
HitsRectangle(img, worldX, worldY) ==
    InRect(worldX, worldY, img.x, img.y, img.width, img.height)

\* The body of the loop for one object: inside its rectangle, and either
\* generating or inside its content bounds scaled to the display size.
HitsImage(img, worldX, worldY) ==
    /\ InRect(worldX, worldY, img.x, img.y, img.width, img.height)
    /\ \/ img.isGenerating
       \/ /\ img.processedImage # NoImage
          /\ LET scaleX == RDiv(img.width, R(img.processedImage[1]))
                 scaleY == RDiv(img.height, R(img.processedImage[2]))
             IN  InRect(RSub(worldX, img.x), RSub(worldY, img.y),
                        RMul(img.contentBounds.x, scaleX),
                        RMul(img.contentBounds.y, scaleY),
                        RMul(img.contentBounds.width, scaleX),
                        RMul(img.contentBounds.height, scaleY))

\* for (let i = images.length - 1; i >= 0; i--): the last hit wins.
HitTest(imgs, screen, vt) ==
    LET worldX == WorldX(R(screen[1]), vt)
        worldY == WorldY(R(screen[2]), vt)
        hits == {i \in 1..Len(imgs) : HitsImage(imgs[i], worldX, worldY)}
    IN  IF hits = {} THEN Null
        ELSE imgs[CHOOSE i \in hits : \A j \in hits : j <= i]

getImageAtPosition(screen) == HitTest(rImages, screen, viewTransform)

\* [...prev.filter(img => img.id !== targetImage.id), targetImage]
BringToFront(imgs, targetImage) ==
    Append(Without(imgs, targetImage.id), targetImage)

\* prev.map(img => img.id === id ? f(img) : img)
MapId(imgs, id, f(_)) ==
    [i \in 1..Len(imgs) |-> IF imgs[i].id = id THEN f(imgs[i]) ELSE imgs[i]]

(***************************************************************************)
(* Pointer: handleInteractionStart / Move / End.                           *)
(***************************************************************************)
\* A press that would start the pan and keep the selection (not the
\* code's, which clears it on a miss).
handleInteractionStartKeepingSelection(screen) ==
    LET targetImage == getImageAtPosition(screen)
    IN  /\ IF targetImage # Null
           THEN /\ selectedImageId' = targetImage.id
                /\ draggingImage' =
                     [id |-> targetImage.id,
                      offsetX |-> RSub(WorldX(R(screen[1]), viewTransform),
                                       targetImage.x),
                      offsetY |-> RSub(WorldY(R(screen[2]), viewTransform),
                                       targetImage.y)]
                /\ images' = BringToFront(images, targetImage)
                /\ UNCHANGED <<isPanning, panStart>>
           ELSE /\ isPanning' = TRUE
                /\ panStart' = screen
                /\ UNCHANGED <<images, draggingImage, selectedImageId>>
        /\ Rendered(images', selectedImageId', previewImageCache,
                    originalImageCache)

handleInteractionStart(screen) ==
    LET targetImage == getImageAtPosition(screen)
    IN  /\ IF targetImage # Null
           THEN /\ selectedImageId' = targetImage.id
                /\ draggingImage' =
                     [id |-> targetImage.id,
                      offsetX |-> RSub(WorldX(R(screen[1]), viewTransform),
                                       targetImage.x),
                      offsetY |-> RSub(WorldY(R(screen[2]), viewTransform),
                                       targetImage.y)]
                /\ images' = BringToFront(images, targetImage)
                /\ UNCHANGED <<isPanning, panStart>>
           ELSE /\ selectedImageId' = NoId
                /\ isPanning' = TRUE
                /\ panStart' = screen
                /\ UNCHANGED <<images, draggingImage>>
        /\ Rendered(images', selectedImageId', previewImageCache,
                    originalImageCache)

\* A drag that would put the origin of the object under the pointer (not
\* the code's, which keeps the offset of the press).
DraggedToPointer(img, worldX, worldY) ==
    [img EXCEPT !.x = worldX, !.y = worldY]

\* x: worldX - draggingImage.offsetX, y: worldY - draggingImage.offsetY
DraggedTo(img, worldX, worldY) ==
    [img EXCEPT !.x = RSub(worldX, draggingImage.offsetX),
                !.y = RSub(worldY, draggingImage.offsetY)]

\* A move whose pan would be in world units, the pointer delta divided by
\* the view scale (not the code's, which adds the raw screen delta).
handleInteractionMoveInWorldUnits(screen) ==
    /\ gestures < MaxGestures
    /\ gestures' = gestures + 1
    /\ \/ /\ draggingImage # Null
          /\ LET worldX == WorldX(R(screen[1]), viewTransform)
                 worldY == WorldY(R(screen[2]), viewTransform)
                 Moved(img) == DraggedTo(img, worldX, worldY)
             IN  images' = MapId(images, draggingImage.id, Moved)
          /\ UNCHANGED <<viewTransform, panStart>>
       \/ /\ draggingImage = Null
          /\ isPanning
          /\ viewTransform' =
               [viewTransform EXCEPT
                  !.offsetX = RAdd(@, RDiv(R(screen[1] - panStart[1]),
                                           viewTransform.scale)),
                  !.offsetY = RAdd(@, RDiv(R(screen[2] - panStart[2]),
                                           viewTransform.scale))]
          /\ panStart' = screen
          /\ UNCHANGED images
    /\ Rendered(images', selectedImageId, previewImageCache,
                originalImageCache)
    /\ UNCHANGED <<selectedImageId, draggingImage, isPanning>>

\* The hover branch changes only hoveredImageId, which is not modelled.
handleInteractionMove(screen) ==
    /\ gestures < MaxGestures
    /\ gestures' = gestures + 1
    /\ \/ /\ draggingImage # Null
          /\ LET worldX == WorldX(R(screen[1]), viewTransform)
                 worldY == WorldY(R(screen[2]), viewTransform)
                 Moved(img) == DraggedTo(img, worldX, worldY)
             IN  images' = MapId(images, draggingImage.id, Moved)
          /\ UNCHANGED <<viewTransform, panStart>>
       \/ /\ draggingImage = Null
          /\ isPanning
          /\ viewTransform' =
               [viewTransform EXCEPT
                  !.offsetX = RAdd(@, R(screen[1] - panStart[1])),
                  !.offsetY = RAdd(@, R(screen[2] - panStart[2]))]
          /\ panStart' = screen
          /\ UNCHANGED images
    /\ Rendered(images', selectedImageId, previewImageCache,
                originalImageCache)
    /\ UNCHANGED <<selectedImageId, draggingImage, isPanning>>

\* A release that would end the drag and leave the pan (not the code's,
\* which ends both).
handleInteractionEndOfDrag ==
    /\ draggingImage' = Null
    /\ UNCHANGED isPanning

handleInteractionEnd ==
    /\ draggingImage' = Null
    /\ isPanning' = FALSE

EventFrame ==
    UNCHANGED <<nextId, pipelines, pending, regenerations, processing>>

handleMouseDown(points) ==
    /\ \E screen \in points : handleInteractionStart(screen)
    /\ UNCHANGED <<viewTransform, pinchState, touches, gestures>>
    /\ EventFrame

handleMouseMove(points) ==
    /\ \E screen \in points : handleInteractionMove(screen)
    /\ UNCHANGED <<pinchState, touches>>
    /\ EventFrame

\* onMouseUp and onMouseLeave
handleMouseUp ==
    /\ handleInteractionEnd
    /\ Rendered(images, selectedImageId, previewImageCache,
                originalImageCache)
    /\ UNCHANGED <<images, selectedImageId, panStart, viewTransform,
                   pinchState, touches, gestures>>
    /\ EventFrame

(***************************************************************************)
(* Wheel: scale the object under the pointer, or zoom the canvas.          *)
(***************************************************************************)
\* No clamp at all (not the code's two comparisons).
Unclamped(v, lo, hi) == v

\* if (newWidth < MIN_WIDTH) newWidth = MIN_WIDTH; if (newWidth > MAX_WIDTH) ...
Clamp(v, lo, hi) == IF RLt(v, lo) THEN lo ELSE IF RLt(hi, v) THEN hi ELSE v

\* A scaling that would keep the top-left corner of the object in place
\* (not the code's, which keeps the centre).
WheelScaledFromCorner(img, scaleDirection) ==
    LET scaleFactor == RAdd(R(1), RMul(R(scaleDirection), SCALE_SPEED))
        aspectRatio == RDiv(img.width, img.height)
        newWidth == Clamp(RMul(img.width, scaleFactor),
                          R(MIN_WIDTH), R(MAX_WIDTH))
        newHeight == RDiv(newWidth, aspectRatio)
    IN  [img EXCEPT !.width = newWidth, !.height = newHeight]

\* The updater of the object branch; scaleDirection is 1 or -1.
WheelScaled(img, scaleDirection) ==
    LET scaleFactor == RAdd(R(1), RMul(R(scaleDirection), SCALE_SPEED))
        aspectRatio == RDiv(img.width, img.height)
        newWidth == Clamp(RMul(img.width, scaleFactor),
                          R(MIN_WIDTH), R(MAX_WIDTH))
        newHeight == RDiv(newWidth, aspectRatio)
        centerX == RAdd(img.x, RHalf(img.width))
        centerY == RAdd(img.y, RHalf(img.height))
    IN  [img EXCEPT !.width = newWidth, !.height = newHeight,
                    !.x = RSub(centerX, RHalf(newWidth)),
                    !.y = RSub(centerY, RHalf(newHeight))]

\* A zoom bounded from above only (not the code's Math.max / Math.min).
ClampScaleAbove(s) == RMin(MAX_SCALE, s)

\* Math.max(MIN_SCALE, Math.min(MAX_SCALE, s))
ClampScale(s) == RMax(MIN_SCALE, RMin(MAX_SCALE, s))

\* A zoom about the world origin (not the code's, which moves the offset
\* to keep the point under the pointer).
WheelZoomedAboutOrigin(vt, screen, scaleDirection) ==
    [vt EXCEPT !.scale = IF scaleDirection = 1
                         THEN RMin(MAX_SCALE, RMul(@, scaleAmount))
                         ELSE RMax(MIN_SCALE, RDiv(@, scaleAmount))]

\* The canvas branch: zoom toward the pointer.
WheelZoomed(vt, screen, scaleDirection) ==
    LET currentScale == vt.scale
        newScaleUnclamped == IF scaleDirection = 1
                             THEN RMul(currentScale, scaleAmount)
                             ELSE RDiv(currentScale, scaleAmount)
        newScale == ClampScale(newScaleUnclamped)
        worldX == RDiv(RSub(R(screen[1]), vt.offsetX), currentScale)
        worldY == RDiv(RSub(R(screen[2]), vt.offsetY), currentScale)
    IN  [scale |-> newScale,
         offsetX |-> RSub(R(screen[1]), RMul(worldX, newScale)),
         offsetY |-> RSub(R(screen[2]), RMul(worldY, newScale))]

\* A wheel that would zoom the canvas whenever it scales no object (not the
\* code's, which does nothing during a drag or a pan).
WheelBranchAlways(screen) ==
    LET targetImage == getImageAtPosition(screen)
    IN  IF targetImage # Null /\ ~targetImage.isGenerating THEN "object"
        ELSE "canvas"

\* The branch a wheel event at the screen point takes: if (targetImage &&
\* !targetImage.isGenerating) ... else if (!draggingImage && !isPanning) ...
\* and nothing otherwise.
WheelBranch(screen) ==
    LET targetImage == getImageAtPosition(screen)
    IN  IF targetImage # Null /\ ~targetImage.isGenerating THEN "object"
        ELSE IF draggingImage = Null /\ ~isPanning THEN "canvas"
        ELSE "none"

\* A wheel event that changes nothing is not a step of the model.
handleWheel(points, directions) ==
    /\ gestures < MaxGestures
    /\ gestures' = gestures + 1
    /\ \E screen \in points, scaleDirection \in directions :
         LET targetImage == getImageAtPosition(screen)
             Scaled(img) == WheelScaled(img, scaleDirection)
         IN  IF WheelBranch(screen) = "object"
             THEN /\ images' = MapId(images, targetImage.id, Scaled)
                  /\ UNCHANGED viewTransform
             ELSE /\ WheelBranch(screen) = "canvas"
                  /\ viewTransform' =
                       WheelZoomed(viewTransform, screen, scaleDirection)
                  /\ UNCHANGED images
    /\ Rendered(images', selectedImageId, previewImageCache,
                originalImageCache)
    /\ UNCHANGED <<selectedImageId, draggingImage, isPanning, panStart,
                   pinchState, touches>>
    /\ EventFrame

(***************************************************************************)
(* Touch: handleTouchStart / Move / End.                                   *)
(***************************************************************************)
ObjectPinch(targetImage, distance) ==
    [target |-> "object", id |-> targetImage.id,
     initialDistance |-> distance,
     initialWidth |-> targetImage.width,
     initialHeight |-> targetImage.height,
     centerX |-> RAdd(targetImage.x, RHalf(targetImage.width)),
     centerY |-> RAdd(targetImage.y, RHalf(targetImage.height))]

CanvasPinch(mid, distance) ==
    [target |-> "canvas", initialDistance |-> distance,
     initialViewTransform |-> viewTransform, initialMidPoint |-> mid]

\* e.touches.length === 1 && !pinchState
TouchStartOne(points) ==
    /\ touches = 0
    /\ touches' = 1
    /\ pinchState = Null
    /\ \E screen \in points : handleInteractionStart(screen)
    /\ UNCHANGED <<viewTransform, pinchState, gestures>>
    /\ EventFrame

\* e.touches.length === 2: the gesture targets the object under the
\* midpoint, or the canvas.
TouchStartTwo(points, distances) ==
    /\ touches < 2
    /\ touches' = 2
    /\ draggingImage' = Null
    /\ \E mid \in points, distance \in distances :
         LET targetImage == getImageAtPosition(mid)
         IN  IF targetImage # Null /\ ~targetImage.isGenerating
             THEN /\ pinchState' = ObjectPinch(targetImage, distance)
                  /\ images' = BringToFront(images, targetImage)
             ELSE /\ pinchState' = CanvasPinch(mid, distance)
                  /\ UNCHANGED images
    /\ Rendered(images', selectedImageId, previewImageCache,
                originalImageCache)
    /\ UNCHANGED <<selectedImageId, isPanning, panStart, viewTransform,
                   gestures>>
    /\ EventFrame

handleTouchStart(points, distances) ==
    TouchStartOne(points) \/ TouchStartTwo(points, distances)

\* A pinch that would scale the content bounds with the object (not the
\* code's, which leaves them in the pixels of the processed image).
PinchScaledWithBounds(img, ps, newDistance) ==
    LET scale == Norm(newDistance, ps.initialDistance)
        newWidth == Clamp(RMul(ps.initialWidth, scale),
                          R(MIN_WIDTH), R(MAX_WIDTH))
        newHeight == RMul(RDiv(ps.initialHeight, ps.initialWidth), newWidth)
    IN  [img EXCEPT !.width = newWidth, !.height = newHeight,
                    !.x = RSub(ps.centerX, RHalf(newWidth)),
                    !.y = RSub(ps.centerY, RHalf(newHeight)),
                    !.contentBounds = Rect(R(0), R(0), newWidth, newHeight)]

\* The updater of the object pinch.
PinchScaled(img, ps, newDistance) ==
    LET scale == Norm(newDistance, ps.initialDistance)
        newWidth == Clamp(RMul(ps.initialWidth, scale),
                          R(MIN_WIDTH), R(MAX_WIDTH))
        newHeight == RMul(RDiv(ps.initialHeight, ps.initialWidth), newWidth)
    IN  [img EXCEPT !.width = newWidth, !.height = newHeight,
                    !.x = RSub(ps.centerX, RHalf(newWidth)),
                    !.y = RSub(ps.centerY, RHalf(newHeight))]

\* A pinch that would zoom about the initial midpoint and not follow the
\* fingers (not the code's, which adds panDX and panDY).
PinchZoomedInPlace(ps, newMidPoint, newDistance) ==
    LET init == ps.initialViewTransform
        newScale == RMax(MIN_SCALE, RMin(MAX_SCALE,
                         RMul(init.scale, Norm(newDistance, ps.initialDistance))))
        grow == RSub(RDiv(newScale, init.scale), R(1))
    IN  [scale |-> newScale,
         offsetX |-> RSub(init.offsetX,
                          RMul(RSub(R(ps.initialMidPoint[1]), init.offsetX),
                               grow)),
         offsetY |-> RSub(init.offsetY,
                          RMul(RSub(R(ps.initialMidPoint[2]), init.offsetY),
                               grow))]

\* The view transform of the canvas pinch.
PinchZoomed(ps, newMidPoint, newDistance) ==
    LET init == ps.initialViewTransform
        scaleRatio == Norm(newDistance, ps.initialDistance)
        newScale == ClampScale(RMul(init.scale, scaleRatio))
        panDX == R(newMidPoint[1] - ps.initialMidPoint[1])
        panDY == R(newMidPoint[2] - ps.initialMidPoint[2])
        grow == RSub(RDiv(newScale, init.scale), R(1))
    IN  [scale |-> newScale,
         offsetX |-> RAdd(RSub(init.offsetX,
                               RMul(RSub(R(ps.initialMidPoint[1]),
                                         init.offsetX), grow)), panDX),
         offsetY |-> RAdd(RSub(init.offsetY,
                               RMul(RSub(R(ps.initialMidPoint[2]),
                                         init.offsetY), grow)), panDY)]

\* e.touches.length === 1 && !pinchState
TouchMoveOne(points) ==
    /\ touches = 1
    /\ pinchState = Null
    /\ \E screen \in points : handleInteractionMove(screen)
    /\ UNCHANGED <<pinchState, touches>>
    /\ EventFrame

\* e.touches.length === 2 && pinchState
TouchMoveTwo(points, distances) ==
    /\ touches = 2
    /\ pinchState # Null
    /\ gestures < MaxGestures
    /\ gestures' = gestures + 1
    /\ \E newMidPoint \in points, newDistance \in distances :
         LET Scaled(img) == PinchScaled(img, pinchState, newDistance)
         IN  IF pinchState.target # "canvas"
             THEN /\ images' = MapId(images, pinchState.id, Scaled)
                  /\ UNCHANGED viewTransform
             ELSE /\ viewTransform' =
                       PinchZoomed(pinchState, newMidPoint, newDistance)
                  /\ UNCHANGED images
    /\ Rendered(images', selectedImageId, previewImageCache,
                originalImageCache)
    /\ UNCHANGED <<selectedImageId, draggingImage, isPanning, panStart,
                   pinchState, touches>>
    /\ EventFrame

handleTouchMove(points, distances) ==
    TouchMoveOne(points) \/ TouchMoveTwo(points, distances)

\* onTouchEnd and onTouchCancel: e.touches.length is what remains.
handleTouchEnd ==
    /\ touches > 0
    /\ \E left \in 0..(touches - 1) :
         /\ touches' = left
         /\ pinchState' = IF left < 2 THEN Null ELSE pinchState
    /\ handleInteractionEnd
    /\ Rendered(images, selectedImageId, previewImageCache,
                originalImageCache)
    /\ UNCHANGED <<images, selectedImageId, panStart, viewTransform,
                   gestures>>
    /\ EventFrame

(***************************************************************************)
(* Creating objects: addImageToCanvas and handleTextSubmit.  Both await    *)
(* ensureAudioContext() first; the rest runs as a continuation with the    *)
(* view transform the handler captured.                                    *)
(***************************************************************************)
\* Creations that have not drawn their id yet.
PendingCreations ==
    Cardinality({i \in 1..Len(pending) :
                    pending[i].kind \in {"addImage", "text", "duplicate",
                                         "remixAudio"}})

CanSuspend == Len(pending) < MaxPending
CanCreate(limit) == nextId + PendingCreations < limit

NewImage(id, file, worldX, worldY) ==
    [id |-> id, sourceFile |-> file, sourceText |-> "",
     processedImage |-> NoImage, originalImageUrl |-> NoImage,
     showOriginal |-> FALSE,
     x |-> RSub(worldX, RHalf(R(PLACEHOLDER_WIDTH))),
     y |-> RSub(worldY, R(100)),
     width |-> R(PLACEHOLDER_WIDTH), height |-> R(PLACEHOLDER_HEIGHT_IMAGE),
     isGenerating |-> TRUE,
     contentBounds |-> Rect(R(0), R(0), R(PLACEHOLDER_WIDTH),
                            R(PLACEHOLDER_HEIGHT_IMAGE)),
     sourcePreviewUrl |-> id, flippedHorizontally |-> FALSE,
     isVariation |-> FALSE, remixSuggestions |-> NoSuggestions,
     generatingPrompt |-> ""]

NewText(id, text, worldX, worldY) ==
    [id |-> id, sourceFile |-> "", sourceText |-> text,
     processedImage |-> NoImage, originalImageUrl |-> NoImage,
     showOriginal |-> FALSE,
     x |-> RSub(worldX, RHalf(R(PLACEHOLDER_WIDTH))),
     y |-> RSub(worldY, RHalf(R(PLACEHOLDER_WIDTH))),
     width |-> R(PLACEHOLDER_WIDTH), height |-> R(PLACEHOLDER_WIDTH),
     isGenerating |-> TRUE,
     contentBounds |-> Rect(R(0), R(0), R(PLACEHOLDER_WIDTH),
                            R(PLACEHOLDER_WIDTH)),
     sourcePreviewUrl |-> NoId, flippedHorizontally |-> FALSE,
     isVariation |-> FALSE, remixSuggestions |-> NoSuggestions,
     generatingPrompt |-> ""]

\* The frame of a handler that only suspends at its first await.
SuspendFrame ==
    UNCHANGED <<images, selectedImageId, rImages, rSelectedImageId, nextId,
                draggingImage, isPanning, panStart, viewTransform, pinchState,
                touches, pipelines, previewImageCache, originalImageCache,
                gestures, regenerations, processing>>

\* The frame of a continuation: it touches the scene, never the controller.
ContinuationFrame ==
    UNCHANGED <<rImages, rSelectedImageId, draggingImage, isPanning, panStart,
                viewTransform, pinchState, touches, gestures, regenerations,
                processing>>

\* handleDrop (at the drop point), handleFileUpload and handlePaste (at the
\* canvas centre).
addImageToCanvas(points, limit) ==
    /\ CanSuspend /\ CanCreate(limit)
    /\ \E file \in Files, screen \in points :
         pending' = Append(pending,
                           [kind |-> "addImage", file |-> file,
                            screen |-> screen,
                            viewTransform |-> viewTransform])
    /\ SuspendFrame

addImageToCanvasContinues ==
    \E i \in 1..Len(pending) :
        LET c == pending[i]
            id == nextId
            newImage == NewImage(id, c.file,
                                 WorldX(R(c.screen[1]), c.viewTransform),
                                 WorldY(R(c.screen[2]), c.viewTransform))
        IN  /\ c.kind = "addImage"
            /\ nextId' = nextId + 1
            /\ previewImageCache' = previewImageCache \cup {id}
            /\ images' = Append(images, newImage)
            /\ pipelines' = Append(pipelines,
                                   NewPipeline(id, "image", c.file, "IMAGE_PROMPT"))
            /\ pending' = RemoveAt(pending, i)
            /\ UNCHANGED <<selectedImageId, originalImageCache>>
            /\ ContinuationFrame

handleTextSubmit(limit) ==
    /\ CanSuspend /\ CanCreate(limit)
    /\ \E trimmedInput \in Texts :
         pending' = Append(pending,
                           [kind |-> "text", text |-> trimmedInput,
                            viewTransform |-> viewTransform])
    /\ SuspendFrame

handleTextSubmitContinues ==
    \E i \in 1..Len(pending) :
        LET c == pending[i]
            id == nextId
            newImage == NewText(id, c.text,
                                WorldX(R(CanvasCentre[1]), c.viewTransform),
                                WorldY(R(CanvasCentre[2]), c.viewTransform))
        IN  /\ c.kind = "text"
            /\ nextId' = nextId + 1
            /\ images' = Append(images, newImage)
            /\ pipelines' = Append(pipelines,
                                   NewPipeline(id, "text", c.text, "TEXT_PROMPT"))
            /\ pending' = RemoveAt(pending, i)
            /\ UNCHANGED <<selectedImageId, previewImageCache, originalImageCache>>
            /\ ContinuationFrame

(***************************************************************************)
(* Content actions on the selected object.  Each checks isActionDisabled   *)
(* in the rendered state; delete, flip, duplicate and remix then await     *)
(* ensureAudioContext() and act in a continuation.                         *)
(***************************************************************************)
handleDeleteSelected ==
    /\ ~isActionDisabled
    /\ CanSuspend
    /\ pending' = Append(pending, [kind |-> "delete",
                                   selectedImageId |-> rSelectedImageId])
    /\ SuspendFrame

\* A delete that would take the topmost object when the id is gone (not the
\* code's filter, which then keeps everything).
DeleteOrDropLast(imgs, id) ==
    IF id \in Ids(imgs) THEN Without(imgs, id)
    ELSE SubSeq(imgs, 1, Len(imgs) - 1)

\* setImages(prev => prev.filter(img => img.id !== selectedImageId))
DeleteIn(imgs, id) == Without(imgs, id)

handleDeleteSelectedContinues ==
    \E i \in 1..Len(pending) :
        LET c == pending[i]
        IN  /\ c.kind = "delete"
            /\ images' = DeleteIn(images, c.selectedImageId)
            /\ selectedImageId' = NoId
            /\ pending' = RemoveAt(pending, i)
            /\ UNCHANGED <<nextId, pipelines, previewImageCache,
                           originalImageCache>>
            /\ ContinuationFrame

\* A regenerate that would forget the typed prompt (not the code's map,
\* which spreads the object and sets two fields).
RegeneratingFromScratch(img) ==
    [img EXCEPT !.isGenerating = TRUE, !.generatingPrompt = "",
                !.sourceText = ""]

\* A regenerate that would put the object back to its placeholder (not the
\* code's map, which keeps processedImage).
RegeneratingCleared(img) ==
    [img EXCEPT !.isGenerating = TRUE, !.generatingPrompt = "",
                !.processedImage = NoImage, !.showOriginal = FALSE]

Regenerating(img) ==
    [img EXCEPT !.isGenerating = TRUE, !.generatingPrompt = ""]

\* The request of a regeneration: from the file when there is one, else
\* from the text.
RegenerationOf(imageToRegen) ==
    IF imageToRegen.sourceFile # ""
    THEN <<NewPipeline(imageToRegen.id, "image", imageToRegen.sourceFile,
                       "IMAGE_PROMPT")>>
    ELSE IF imageToRegen.sourceText # ""
    THEN <<NewPipeline(imageToRegen.id, "text", imageToRegen.sourceText,
                       "TEXT_PROMPT")>>
    ELSE <<>>

handleRegenerateSelected ==
    /\ ~isActionDisabled
    /\ regenerations < MaxRegenerations
    /\ regenerations' = regenerations + 1
    /\ LET imageToRegen == Find(rImages, rSelectedImageId)
       IN  /\ images' = MapId(images, rSelectedImageId, Regenerating)
           /\ pipelines' = pipelines \o RegenerationOf(imageToRegen)
    /\ Rendered(images', selectedImageId, previewImageCache,
                originalImageCache)
    /\ UNCHANGED <<selectedImageId, nextId, draggingImage, isPanning, panStart,
                   viewTransform, pinchState, touches, pending, gestures,
                   processing>>

handleFlipSelected ==
    /\ ~isActionDisabled
    /\ CanSuspend
    /\ pending' = Append(pending, [kind |-> "flip",
                                   selectedImageId |-> rSelectedImageId])
    /\ SuspendFrame

Flipped(img) == [img EXCEPT !.flippedHorizontally = ~@]

handleFlipSelectedContinues ==
    \E i \in 1..Len(pending) :
        LET c == pending[i]
        IN  /\ c.kind = "flip"
            /\ images' = MapId(images, c.selectedImageId, Flipped)
            /\ pending' = RemoveAt(pending, i)
            /\ UNCHANGED <<selectedImageId, nextId, pipelines, previewImageCache,
                           originalImageCache>>
            /\ ContinuationFrame

handleDuplicateSelected ==
    /\ ~isActionDisabled
    /\ CanSuspend /\ CanCreate(MaxObjects)
    /\ pending' = Append(pending,
                         [kind |-> "duplicate",
                          image |-> Find(rImages, rSelectedImageId)])
    /\ SuspendFrame

\* A copy that would keep the id of its source (not the code's copy).
DuplicatedKeepingId(imageToDuplicate, newId) ==
    [imageToDuplicate EXCEPT !.x = RAdd(@, R(40)),
                             !.y = RAdd(@, R(20))]

\* A copy that would lie on its source (not the code's copy, which is
\* offset by 40 and 20).
DuplicatedInPlace(imageToDuplicate, newId) ==
    [imageToDuplicate EXCEPT !.id = newId]

Duplicated(imageToDuplicate, newId) ==
    [imageToDuplicate EXCEPT !.id = newId,
                             !.x = RAdd(@, R(40)),
                             !.y = RAdd(@, R(20))]

handleDuplicateSelectedContinues ==
    \E i \in 1..Len(pending) :
        LET c == pending[i]
            newId == nextId
        IN  /\ c.kind = "duplicate"
            /\ nextId' = nextId + 1
            /\ originalImageCache' =
                 IF c.image.id \in originalImageCache
                 THEN originalImageCache \cup {newId}
                 ELSE originalImageCache
            /\ images' = Append(images, Duplicated(c.image, newId))
            /\ selectedImageId' = newId
            /\ pending' = RemoveAt(pending, i)
            /\ UNCHANGED <<pipelines, previewImageCache>>
            /\ ContinuationFrame

\* handleRemixKeyDown and the suggestion button.
handleRemixSubmit ==
    /\ ~isActionDisabled
    /\ CanSuspend /\ CanCreate(MaxObjects)
    /\ LET imageToRemix == Find(rImages, rSelectedImageId)
       IN  /\ imageToRemix.processedImage # NoImage
           /\ \E prompt \in RemixPrompts :
                pending' = Append(pending,
                                  [kind |-> "remixAudio",
                                   image |-> imageToRemix,
                                   prompt |-> prompt])
    /\ SuspendFrame

\* After await ensureAudioContext(): the id is drawn, then the handler
\* awaits imageElementToFile.
handleRemixSubmitDrawsId ==
    \E i \in 1..Len(pending) :
        LET c == pending[i]
        IN  /\ c.kind = "remixAudio"
            /\ nextId' = nextId + 1
            /\ pending' = [pending EXCEPT
                             ![i] = [kind |-> "remixToFile", image |-> c.image,
                                     prompt |-> c.prompt, newId |-> nextId]]
            /\ UNCHANGED <<images, selectedImageId, pipelines, previewImageCache,
                           originalImageCache>>
            /\ ContinuationFrame

\* A variation that would be placed on its source and not marked as a
\* variation (not the code's).
RemixOnSource(imageToRemix, newId, prompt) ==
    [id |-> newId,
     sourceFile |-> "remix",
     sourceText |-> "",
     processedImage |-> imageToRemix.processedImage,
     originalImageUrl |-> NoImage,
     showOriginal |-> FALSE,
     x |-> imageToRemix.x,
     y |-> imageToRemix.y,
     width |-> imageToRemix.width,
     height |-> imageToRemix.height,
     isGenerating |-> TRUE,
     contentBounds |-> Rect(R(0), R(0), imageToRemix.width,
                            imageToRemix.height),
     sourcePreviewUrl |-> NoId,
     flippedHorizontally |-> imageToRemix.flippedHorizontally,
     isVariation |-> FALSE,
     remixSuggestions |-> NoSuggestions,
     generatingPrompt |-> prompt]

RemixOf(imageToRemix, newId, prompt) ==
    [id |-> newId,
     sourceFile |-> "remix",
     sourceText |-> "",
     processedImage |-> imageToRemix.processedImage,
     originalImageUrl |-> NoImage,
     showOriginal |-> FALSE,
     x |-> RAdd(imageToRemix.x, R(40)),
     y |-> RAdd(imageToRemix.y, R(20)),
     width |-> imageToRemix.width,
     height |-> imageToRemix.height,
     isGenerating |-> TRUE,
     contentBounds |-> Rect(R(0), R(0), imageToRemix.width,
                            imageToRemix.height),
     sourcePreviewUrl |-> NoId,
     flippedHorizontally |-> imageToRemix.flippedHorizontally,
     isVariation |-> TRUE,
     remixSuggestions |-> NoSuggestions,
     generatingPrompt |-> prompt]

\* imageElementToFile resolved: the variation is added and its generation
\* starts.
handleRemixSubmitContinues ==
    \E i \in 1..Len(pending) :
        LET c == pending[i]
        IN  /\ c.kind = "remixToFile"
            /\ images' = Append(images, RemixOf(c.image, c.newId, c.prompt))
            /\ selectedImageId' = c.newId
            /\ pipelines' = Append(pipelines,
                                   NewPipeline(c.newId, "image", "remix",
                                               c.prompt))
            /\ pending' = RemoveAt(pending, i)
            /\ UNCHANGED <<nextId, previewImageCache, originalImageCache>>
            /\ ContinuationFrame

\* imageElementToFile rejected: the handler ends with nothing added.
handleRemixSubmitFails ==
    \E i \in 1..Len(pending) :
        LET c == pending[i]
        IN  /\ c.kind = "remixToFile"
            /\ pending' = RemoveAt(pending, i)
            /\ UNCHANGED <<images, selectedImageId, nextId, pipelines,
                           previewImageCache, originalImageCache>>
            /\ ContinuationFrame

(***************************************************************************)
(* Keyboard (no text field focused) and Reset.                             *)
(***************************************************************************)
ToggledOriginal(img) ==
    IF img.originalImageUrl # NoImage
    THEN [img EXCEPT !.showOriginal = ~@]
    ELSE img

\* e.key === 'm' && selectedImageId !== null
handleKeyM ==
    /\ rSelectedImageId # NoId
    /\ images' = MapId(images, rSelectedImageId, ToggledOriginal)
    /\ Rendered(images', selectedImageId, previewImageCache,
                originalImageCache)
    /\ UNCHANGED <<selectedImageId, nextId, draggingImage, isPanning, panStart,
                   viewTransform, pinchState, touches, pipelines, pending,
                   gestures, regenerations, processing>>

ArrowKeys == {"ArrowUp", "ArrowDown", "ArrowLeft", "ArrowRight"}

\* A step of MOVE_AMOUNT world units whatever the view scale (not the
\* code's, which divides by viewTransform.scale).
ArrowTargetUnscaled(selectedImg, key, vt) ==
    LET moveStep == R(MOVE_AMOUNT)
    IN  [x |-> IF key = "ArrowLeft" THEN RSub(selectedImg.x, moveStep)
               ELSE IF key = "ArrowRight" THEN RAdd(selectedImg.x, moveStep)
               ELSE selectedImg.x,
         y |-> IF key = "ArrowUp" THEN RSub(selectedImg.y, moveStep)
               ELSE IF key = "ArrowDown" THEN RAdd(selectedImg.y, moveStep)
               ELSE selectedImg.y]

\* The position the arrow key computes from the rendered selected object.
ArrowTarget(selectedImg, key, vt) ==
    LET moveStep == RDiv(R(MOVE_AMOUNT), vt.scale)
    IN  [x |-> IF key = "ArrowLeft" THEN RSub(selectedImg.x, moveStep)
               ELSE IF key = "ArrowRight" THEN RAdd(selectedImg.x, moveStep)
               ELSE selectedImg.x,
         y |-> IF key = "ArrowUp" THEN RSub(selectedImg.y, moveStep)
               ELSE IF key = "ArrowDown" THEN RAdd(selectedImg.y, moveStep)
               ELSE selectedImg.y]

handleKeyArrow ==
    /\ rSelectedImageId # NoId
    /\ ~isActionDisabled
    /\ gestures < MaxGestures
    /\ gestures' = gestures + 1
    /\ \E key \in ArrowKeys :
         LET to == ArrowTarget(Find(rImages, rSelectedImageId), key,
                               viewTransform)
             Moved(img) == [img EXCEPT !.x = to.x, !.y = to.y]
         IN  images' = MapId(images, rSelectedImageId, Moved)
    /\ Rendered(images', selectedImageId, previewImageCache,
                originalImageCache)
    /\ UNCHANGED <<selectedImageId, nextId, draggingImage, isPanning, panStart,
                   viewTransform, pinchState, touches, pipelines, pending,
                   regenerations, processing>>

InitialViewTransform == [scale |-> R(1), offsetX |-> R(0), offsetY |-> R(0)]

handleResetCanvas ==
    /\ images' = <<>>
    /\ viewTransform' = InitialViewTransform
    /\ Rendered(images', selectedImageId, previewImageCache,
                originalImageCache)
    /\ UNCHANGED <<selectedImageId, nextId, draggingImage, isPanning, panStart,
                   pinchState, touches, pipelines, pending, gestures,
                   regenerations, processing>>

(***************************************************************************)
(* The specification.                                                      *)
(***************************************************************************)
InitScene ==
    /\ images = <<>>
    /\ selectedImageId = NoId
    /\ rImages = <<>>
    /\ rSelectedImageId = NoId
    /\ nextId = 0
    /\ draggingImage = Null
    /\ isPanning = FALSE
    /\ panStart = <<0, 0>>
    /\ viewTransform = InitialViewTransform
    /\ pinchState = Null
    /\ touches = 0
    /\ pipelines = <<>>
    /\ pending = <<>>
    /\ previewImageCache = {}
    /\ originalImageCache = {}
    /\ gestures = 0
    /\ regenerations = 0

Init == InitScene /\ processing = NotProcessing

\* The scene and its generation pipelines: objects are created from text at
\* the canvas centre, pressed there, deleted, regenerated, duplicated and
\* remixed.
Next ==
    \/ handleTextSubmit(MaxObjects)
    \/ handleTextSubmitContinues
    \/ PipelineStep({WideImage}, SuggestionCounts)
    \/ Render
    \/ handleMouseDown({CanvasCentre})
    \/ handleDeleteSelected
    \/ handleDeleteSelectedContinues
    \/ handleRegenerateSelected
    \/ handleDuplicateSelected
    \/ handleDuplicateSelectedContinues
    \/ handleRemixSubmit
    \/ handleRemixSubmitDrawsId
    \/ handleRemixSubmitContinues
    \/ handleRemixSubmitFails
    \/ handleResetCanvas

Spec == Init /\ [][Next]_vars

\* Zooming and scaling: one object, regenerated with images of either aspect
\* ratio, under wheel and touch gestures at the canvas centre and away
\* from it.
NextScale ==
    \/ handleTextSubmit(MaxScaledObjects)
    \/ handleTextSubmitContinues
    \/ PipelineStep(GeneratedImages, NoPrompts)
    \/ Render
    \/ handleWheel({CanvasCentre}, ScaleDirections)
    \/ handleTouchStart({CanvasCentre}, TouchDistances)
    \/ handleTouchMove(ScreenPoints, TouchDistances)
    \/ handleTouchEnd
    \/ handleRegenerateSelected
    \/ handleResetCanvas

SpecScale == Init /\ [][NextScale]_vars

\* Widths: an object that is scaled up by the wheel, scaled both ways by a
\* pinch, duplicated and remixed.
NextWidth ==
    \/ handleTextSubmit(MaxScaledObjects)
    \/ handleTextSubmitContinues
    \/ PipelineStep({SquareImage}, NoPrompts)
    \/ Render
    \/ handleWheel({CanvasCentre}, ScaleUp)
    \/ handleTouchStart({CanvasCentre}, TouchDistances)
    \/ handleTouchMove({CanvasCentre}, TouchDistances)
    \/ handleTouchEnd
    \/ handleDuplicateSelected
    \/ handleDuplicateSelectedContinues
    \/ handleRemixSubmit
    \/ handleRemixSubmitDrawsId
    \/ handleRemixSubmitContinues
    \/ handleRemixSubmitFails

SpecWidth == Init /\ [][NextWidth]_vars

\* Progress of a generation: one object, pressed, regenerated and flipped.  Every
\* await of a pipeline settles, every suspended handler resumes and every
\* state update is rendered; the user is under no obligation.
NextLive ==
    \/ handleTextSubmit(MaxScaledObjects)
    \/ handleTextSubmitContinues
    \/ PipelineStep({WideImage}, SuggestionCounts)
    \/ Render
    \/ handleMouseDown({CanvasCentre})
    \/ handleMouseUp
    \/ handleRegenerateSelected
    \/ handleFlipSelected
    \/ handleFlipSelectedContinues

SpecLive ==
    /\ Init /\ [][NextLive]_vars
    /\ WF_vars(handleTextSubmitContinues)
    /\ WF_vars(PipelineStep({WideImage}, SuggestionCounts))
    /\ WF_vars(handleFlipSelectedContinues)
    /\ WF_vars(Render)

\* Dropped images: an object is created by a drop at the canvas centre,
\* completed with a small or a wide image, pressed and remixed.
NextDrop ==
    \/ addImageToCanvas({CanvasCentre}, MaxScaledObjects)
    \/ addImageToCanvasContinues
    \/ PipelineStep({SmallImage, WideImage}, SuggestionCounts)
    \/ Render
    \/ handleMouseDown({CanvasCentre})
    \/ handleRemixSubmit
    \/ handleRemixSubmitDrawsId
    \/ handleRemixSubmitContinues
    \/ handleRemixSubmitFails

SpecDrop == Init /\ [][NextDrop]_vars

\* The life of one object: created by a drop or from text, completed,
\* pressed, dragged, scaled by the wheel, regenerated, flipped and toggled
\* to its original.
NextSource ==
    \/ addImageToCanvas({CanvasCentre}, MaxScaledObjects)
    \/ addImageToCanvasContinues
    \/ handleTextSubmit(MaxScaledObjects)
    \/ handleTextSubmitContinues
    \/ PipelineStep({WideImage}, NoPrompts)
    \/ Render
    \/ handleMouseDown({CanvasCentre})
    \/ handleMouseMove({FarPoint})
    \/ handleMouseUp
    \/ handleWheel({CanvasCentre}, ScaleUp)
    \/ handleRegenerateSelected
    \/ handleFlipSelected
    \/ handleFlipSelectedContinues
    \/ handleKeyM

SpecSource == Init /\ [][NextSource]_vars

\* Hit-testing: two objects made at the canvas centre, completed with a
\* square image whose sprite fills the middle half, pressed at the centre
\* and in the padding.
NextHit ==
    \/ handleTextSubmit(MaxObjects)
    \/ handleTextSubmitContinues
    \/ PipelineStep({SquareImage}, NoPrompts)
    \/ Render
    \/ handleMouseDown(HitPoints)
    \/ handleMouseUp

SpecHit == Init /\ [][NextHit]_vars

\* The view alone: an empty canvas is panned with the mouse and with one
\* finger, zoomed with the wheel and pinched, at the centre and away from
\* it.
NextView ==
    \/ handleMouseDown(ScreenPoints)
    \/ handleMouseMove(ScreenPoints)
    \/ handleMouseUp
    \/ handleWheel(ScreenPoints, ScaleDirections)
    \/ handleTouchStart(ScreenPoints, TouchDistances)
    \/ handleTouchMove(ScreenPoints, TouchDistances)
    \/ handleTouchEnd

SpecView == Init /\ [][NextView]_vars

\* Dragging among objects: two objects made at the canvas centre, a view
\* that the wheel zooms about the far point, and a mouse that is pressed at
\* the centre, moved to either point and released.
NextPointer ==
    \/ handleTextSubmit(MaxObjects)
    \/ handleTextSubmitContinues
    \/ PipelineStep({SquareImage}, NoPrompts)
    \/ Render
    \/ handleMouseDown({CanvasCentre})
    \/ handleMouseMove(ScreenPoints)
    \/ handleMouseUp
    \/ handleWheel({FarPoint}, ScaleUp)

SpecPointer == Init /\ [][NextPointer]_vars

\* Panning past an object: one object made at the canvas centre, a view that
\* the wheel zooms about the far point, and a mouse that is pressed on the
\* object or away from it, moved to either point and released.
NextPan ==
    \/ handleTextSubmit(MaxScaledObjects)
    \/ handleTextSubmitContinues
    \/ PipelineStep({SquareImage}, NoPrompts)
    \/ Render
    \/ handleMouseDown(ScreenPoints)
    \/ handleMouseMove(ScreenPoints)
    \/ handleMouseUp
    \/ handleWheel({FarPoint}, ScaleUp)

SpecPan == Init /\ [][NextPan]_vars

\* Releases: one object made at the canvas centre; the mouse is pressed on
\* it or away from it and released, and one or two fingers are put down on
\* it or away from it and lifted.
NextRelease ==
    \/ handleTextSubmit(MaxScaledObjects)
    \/ handleTextSubmitContinues
    \/ PipelineStep({SquareImage}, NoPrompts)
    \/ Render
    \/ handleMouseDown(ScreenPoints)
    \/ handleMouseUp
    \/ handleTouchStart(ScreenPoints, TouchDistances)
    \/ handleTouchEnd

SpecRelease == Init /\ [][NextRelease]_vars

\* The wheel in every controller state: one object made at the canvas
\* centre; the mouse is pressed on it or away from it and released, and the
\* wheel is turned either way over the object and away from it.
NextWheel ==
    \/ handleTextSubmit(MaxScaledObjects)
    \/ handleTextSubmitContinues
    \/ PipelineStep({SquareImage}, NoPrompts)
    \/ Render
    \/ handleMouseDown(ScreenPoints)
    \/ handleMouseUp
    \/ handleWheel(ScreenPoints, ScaleDirections)

SpecWheel == Init /\ [][NextWheel]_vars

\* The arrow keys: an object made at the canvas centre, selected by a
\* press, moved by the arrow keys under a view that the wheel zooms either
\* way, regenerated and duplicated.
NextKeys ==
    \/ handleTextSubmit(MaxScaledObjects)
    \/ handleTextSubmitContinues
    \/ PipelineStep({SquareImage}, NoPrompts)
    \/ Render
    \/ handleMouseDown(ScreenPoints)
    \/ handleWheel({FarPoint}, ScaleDirections)
    \/ handleKeyArrow
    \/ handleRegenerateSelected
    \/ handleDuplicateSelected
    \/ handleDuplicateSelectedContinues

SpecKeys == Init /\ [][NextKeys]_vars

\* The transparency processor, run once on every image of PixelsWide x
\* PixelsHigh pixels over the palette.
PixelImages ==
    {[width |-> PixelsWide, height |-> PixelsHigh, data |-> d] :
        d \in [1..(PixelsWide * PixelsHigh) -> Palette]}

InitPixels ==
    /\ InitScene
    /\ \E img \in PixelImages :
         processing = Settled("loading", img, img.data, FullExtent(img),
                              "none")

NextPixels ==
    \/ ImageFailsToLoad
    \/ NoContext
    \/ PixelReadFails
    \/ ImageProcessed
    \/ EncodedImageLoads
    \/ EncodedImageFailsToLoad

SpecPixels == InitPixels /\ [][NextPixels]_vars

(***************************************************************************)
(* Properties.                                                             *)
(***************************************************************************)
\* The step ends the pipeline at position i: its last await settled and the
\* completion or the catch block ran.
PipelineEnds(i) == pipelines' = RemoveAt(pipelines, i)

InScene(id) == id \in Ids(images)

C2_OnePipelinePerId ==
    \A i, j \in 1..Len(pipelines) :
        i # j => pipelines[i].id # pipelines[j].id

\* A regeneration is in flight for the selected object, which is rendered as
\* generating: a second regenerate is refused.
C2_Witness ==
    /\ regenerations > 0
    /\ isActionDisabled
    /\ \E i \in 1..Len(pipelines) :
         /\ pipelines[i].id = rSelectedImageId
         /\ InScene(pipelines[i].id)
         /\ Find(images, pipelines[i].id).isGenerating

\* The object a suspended content action acts on behalf of.
ActsOn(c) ==
    IF c.kind \in {"delete", "flip"} THEN c.selectedImageId ELSE c.image.id

\* The step resumes the suspended content action at position i and changes
\* the scene.
ContentActionApplies(i) ==
    /\ pending[i].kind \in {"delete", "flip", "duplicate", "remixToFile"}
    /\ pending' = RemoveAt(pending, i)
    /\ images' # images

\* C3: a flip, duplicate, delete or remix never changes the scene on behalf
\* of an object whose isGenerating flag is true at the moment the change is
\* applied.
C3_ContentActionsDisabledWhileGenerating ==
    [][\A i \in 1..Len(pending) :
          ContentActionApplies(i) =>
              LET target == Find(images, ActsOn(pending[i]))
              IN  target = Null \/ ~target.isGenerating]_vars

\* C4: when the pipeline for an id ends and the object of that id leaves the
\* scene (the pipeline failed), the scene is the former scene without that
\* object, the others unchanged and in their order, and the step issues no
\* generation request: the pipelines are the former ones without the one
\* that failed.
C4_FailureRemovesExactlyTheObject ==
    [][/\ \A i \in 1..Len(pipelines) :
            (/\ PipelineEnds(i)
             /\ InScene(pipelines[i].id)
             /\ pipelines[i].id \notin Ids(images'))
            => images' = Without(images, pipelines[i].id)
       /\ (Len(pipelines') < Len(pipelines)
             => \E i \in 1..Len(pipelines) : PipelineEnds(i))]_vars

\* Object 0 left the scene while the last render still shows it generating
\* (no user action removed it: its pipeline failed); object 1 is untouched,
\* with its pipeline in flight.
C4_Witness ==
    /\ regenerations = 0
    /\ Ids(images) = {1}
    /\ Ids(rImages) = {0, 1}
    /\ Find(rImages, 0).isGenerating
    /\ Find(images, 1) = Find(rImages, 1)
    /\ Len(pipelines) = 1
    /\ pipelines[1].id = 1

\* C5: when a pipeline that has its image generated and processed ends at
\* the suggestion step with its object in the scene, the object stays in the
\* scene, completed (isGenerating = false, processed image set): a failure
\* of the suggestion step never removes it.
C5_SuggestionFailureNeverPropagates ==
    [][\A i \in 1..Len(pipelines) :
          (/\ pipelines[i].stage = "suggestions"
           /\ PipelineEnds(i)
           /\ InScene(pipelines[i].id))
          => /\ pipelines[i].id \in Ids(images')
             /\ ~Find(images', pipelines[i].id).isGenerating
             /\ Find(images', pipelines[i].id).processedImage # NoImage]_vars

Generating(id) ==
    \E i \in 1..Len(images) : images[i].id = id /\ images[i].isGenerating

\* C6: when every await of a pipeline settles, every object that is
\* generating eventually is not generating any more or is no longer in the
\* scene, whatever the user does.
C6_GenerationEventuallyEnds ==
    \A id \in 0..(MaxObjects - 1) : Generating(id) ~> ~Generating(id)

\* C7: in every reachable state the width of every object of the scene is
\* within [MIN_WIDTH, MAX_WIDTH] = [50, 1000].
C7_WidthInRange ==
    \A i \in 1..Len(images) :
        /\ RLe(R(MIN_WIDTH), images[i].width)
        /\ RLe(images[i].width, R(MAX_WIDTH))

\* An object pinched up to the largest width, and a copy of it pinched down
\* to the smallest.
C7_Witness ==
    \E i, j \in 1..Len(images) :
        /\ images[i].width = R(MAX_WIDTH)
        /\ images[j].width = R(MIN_WIDTH)

\* C8: in every reachable state the view scale is within
\* [MIN_SCALE, MAX_SCALE] = [0.2, 3.0].
C8_ViewScaleInRange ==
    /\ RLe(MIN_SCALE, viewTransform.scale)
    /\ RLe(viewTransform.scale, MAX_SCALE)

\* A canvas pinch in progress, begun at a scale inside the range, that has
\* brought the view to the smallest scale.
C8_Witness ==
    /\ pinchState # Null
    /\ pinchState.target = "canvas"
    /\ RLt(MIN_SCALE, pinchState.initialViewTransform.scale)
    /\ viewTransform.scale = MIN_SCALE

\* Every id that was handed out is below nextId, and no two objects of the
\* scene share an id.
IdsUniqueAndDrawn ==
    /\ \A i, j \in 1..Len(images) : i # j => images[i].id # images[j].id
    /\ \A i \in 1..Len(images) : images[i].id < nextId
    /\ \A i \in 1..Len(pipelines) : pipelines[i].id < nextId
    /\ \A i \in 1..Len(pending) :
         pending[i].kind = "remixToFile" => pending[i].newId < nextId

\* The step puts in the scene an object that was not there and was not
\* there at the last render.
Creates(id) ==
    /\ id \in Ids(images')
    /\ id \notin Ids(images)
    /\ id \notin Ids(rImages)

\* C9: ids are unique and never reused.  No two objects of the scene share
\* an id; the id counter never goes back, not even on Reset; and an object
\* that enters the scene carries an id that was drawn from the counter
\* after the ids of all the objects created before it: the id the step
\* draws, or the id its remix drew and no object has carried since.
C9_IdsUniqueAndIncreasing ==
    /\ []IdsUniqueAndDrawn
    /\ [][/\ nextId' >= nextId
          /\ \A id \in 0..(MaxObjects - 1) :
               Creates(id) =>
                 \/ id = nextId /\ nextId' = nextId + 1
                 \/ \E i \in 1..Len(pending) :
                      /\ pending[i].kind = "remixToFile"
                      /\ pending[i].newId = id]_vars

\* Object 0 is gone and object 1, created after it, has completed.
C9_Witness ==
    /\ nextId = 2
    /\ Ids(images) = {1}
    /\ ~Find(images, 1).isGenerating

\* C10: every object that has completed generation (not generating, with a
\* processed image) has width / height equal to the aspect ratio of its
\* processed image.
C10_AspectRatioPreserved ==
    \A i \in 1..Len(images) :
        (~images[i].isGenerating /\ images[i].processedImage # NoImage)
        => RMul(images[i].width, R(images[i].processedImage[2]))
             = RMul(images[i].height, R(images[i].processedImage[1]))

\* C11: an object that is generating has no processed image, unless it is a
\* remix-derived object (isVariation).
C11_GeneratingHasNoProcessedImage ==
    \A i \in 1..Len(images) :
        (images[i].isGenerating /\ ~images[i].isVariation)
        => images[i].processedImage = NoImage

\* C12: for every object that has a processed image, contentBounds lies
\* inside [0, W] x [0, H], W and H the native pixel size of the processed
\* image; remix objects that are still generating included.
C12_ContentBoundsInsideImage ==
    \A i \in 1..Len(images) :
        images[i].processedImage # NoImage
        => LET cb == images[i].contentBounds
               W == R(images[i].processedImage[1])
               H == R(images[i].processedImage[2])
           IN  /\ RLe(R(0), cb.x)
               /\ RLe(R(0), cb.y)
               /\ RLe(RAdd(cb.x, cb.width), W)
               /\ RLe(RAdd(cb.y, cb.height), H)

ExactlyOneSource ==
    \A i \in 1..Len(images) :
        (images[i].sourceFile # "") # (images[i].sourceText # "")

SourceKept ==
    \A i \in 1..Len(images), j \in 1..Len(images') :
        images[i].id = images'[j].id
        => /\ images'[j].sourceFile = images[i].sourceFile
           /\ images'[j].sourceText = images[i].sourceText

\* C13: every object in the scene has exactly one of sourceFile and
\* sourceText set, and no step changes the source of an object that stays
\* in the scene.
C13_SourceSetOnceAndKept == []ExactlyOneSource /\ [][SourceKept]_vars

\* An object made from text that was regenerated, completed again, scaled,
\* flipped and toggled to its original.
C13_Witness ==
    \E i \in 1..Len(images) :
        /\ images[i].sourceText = "banana"
        /\ regenerations = 1
        /\ ~images[i].isGenerating
        /\ images[i].width # R(IMAGE_WIDTH)
        /\ images[i].flippedHorizontally
        /\ images[i].showOriginal

\* Nothing is in flight and the cleanup effect has run on the current scene.
CleanedUp ==
    /\ pipelines = <<>>
    /\ pending = <<>>
    /\ rImages = images

\* C14: once the cleanup that follows a scene change has run, every key of
\* the original-image cache and of the preview cache is the id of an object
\* in the scene.
C14_CachesOwnedByScene ==
    CleanedUp => /\ originalImageCache \subseteq Ids(images)
                 /\ previewImageCache \subseteq Ids(images)

\* The object drawn alone would be hit at the screen point.
HitAlone(img, screen) == HitTest(<<img>>, screen, viewTransform) # Null

InExtent(img, screen) ==
    InRect(WorldX(R(screen[1]), viewTransform),
           WorldY(R(screen[2]), viewTransform),
           img.x, img.y, img.width, img.height)

\* The point is outside the content bounds scaled to the display size.
OutsideContent(img, screen) ==
    img.processedImage # NoImage
    => LET scaleX == RDiv(img.width, R(img.processedImage[1]))
           scaleY == RDiv(img.height, R(img.processedImage[2]))
           localX == RSub(WorldX(R(screen[1]), viewTransform), img.x)
           localY == RSub(WorldY(R(screen[2]), viewTransform), img.y)
           cb == img.contentBounds
       IN  \/ RLt(localX, RMul(cb.x, scaleX))
           \/ RLt(RMul(RAdd(cb.x, cb.width), scaleX), localX)
           \/ RLt(localY, RMul(cb.y, scaleY))
           \/ RLt(RMul(RAdd(cb.y, cb.height), scaleY), localY)

\* C15: at a point inside an object's extent and outside its scaled
\* content bounds, the hit test does not return the object when it is
\* complete; it returns a generating object at any point of its extent when
\* no object above it is hit; and of several objects hit, the latest in
\* scene order is returned.
C15_HitTestRespectsContentBounds ==
    \A screen \in HitPoints :
        LET hit == getImageAtPosition(screen)
        IN  \A i \in 1..Len(rImages) :
                LET img == rImages[i]
                    above == (i + 1)..Len(rImages)
                IN  /\ (/\ InExtent(img, screen)
                        /\ ~img.isGenerating
                        /\ OutsideContent(img, screen)) => hit # img
                    /\ (/\ InExtent(img, screen)
                        /\ img.isGenerating
                        /\ \A k \in above : ~HitAlone(rImages[k], screen))
                       => hit = img
                    /\ (/\ HitAlone(img, screen)
                        /\ \E k \in above : HitAlone(rImages[k], screen))
                       => hit # img

\* A complete object lies above a generating one; the point is in the
\* padding of the first and in the extent of the second, and a press there
\* took the generating object.
C15_Witness ==
    /\ Len(images) = 2
    /\ images[1].id = 1 /\ ~images[1].isGenerating
    /\ images[2].id = 0 /\ images[2].isGenerating
    /\ InExtent(images[1], PaddingPoint)
    /\ OutsideContent(images[1], PaddingPoint)
    /\ draggingImage # Null
    /\ draggingImage.id = 0
    /\ draggingImage.offsetX = R(15)

\* The step is the continuation of the delete suspended at position i.
Deletes(i) ==
    /\ i \in 1..Len(pending)
    /\ pending[i].kind = "delete"
    /\ pending' = RemoveAt(pending, i)

WorldUnder(screen, vt) ==
    <<WorldX(R(screen[1]), vt), WorldY(R(screen[2]), vt)>>

\* C17: a wheel zoom of the canvas at a screen point keeps the world point
\* that was under it there, from every view transform, in both directions,
\* clamped or not.
C17_WheelZoomKeepsPointUnderCursor ==
    \A screen \in ScreenPoints, scaleDirection \in ScaleDirections :
        WorldUnder(screen, WheelZoomed(viewTransform, screen, scaleDirection))
          = WorldUnder(screen, viewTransform)

\* Two wheel steps up at the point away from the centre: the scale is
\* 1.21 and the offset has followed the point.
C17_Witness ==
    /\ gestures = 2
    /\ viewTransform =
         WheelZoomed(WheelZoomed(InitialViewTransform, FarPoint, 1),
                     FarPoint, 1)
    /\ viewTransform.scale = <<121, 100>>
    /\ viewTransform.offsetX # R(0)

\* C18: during a canvas pinch, the view a touch-move computes puts the
\* world point that was under the initial midpoint at pinch start under
\* the current midpoint, for every midpoint and every distance ratio.
C18_PinchKeepsMidpointWorld ==
    (pinchState # Null /\ pinchState.target = "canvas")
    => \A newMidPoint \in ScreenPoints, newDistance \in TouchDistances :
           WorldUnder(newMidPoint,
                      PinchZoomed(pinchState, newMidPoint, newDistance))
             = WorldUnder(pinchState.initialMidPoint,
                          pinchState.initialViewTransform)

\* A pinch begun at the centre on a zoomed view, spread to eight times the
\* distance (the scale is clamped at 3) with the midpoint moved away.
C18_Witness ==
    /\ pinchState # Null
    /\ pinchState.target = "canvas"
    /\ pinchState.initialMidPoint = CanvasCentre
    /\ pinchState.initialViewTransform.scale = scaleAmount
    /\ viewTransform = PinchZoomed(pinchState, FarPoint, 400)
    /\ viewTransform.scale = MAX_SCALE
    /\ touches = 2

\* What drawCanvas draws for an object: the cached original when it is
\* toggled to and cached, else the processed image.
Shown(img, cache) ==
    IF img.showOriginal /\ img.id \in cache
    THEN <<"original", img.originalImageUrl>>
    ELSE <<"processed", img.processedImage>>

\* The generation request of the id has not resolved.
RequestInFlight(pl, id) ==
    \E i \in 1..Len(pl) : pl[i].id = id /\ pl[i].stage = "generate"

\* Regenerate is invoked on the id: a complete object made from text, in the
\* scene and selected.
RegenerateOn(id) ==
    /\ regenerations' = regenerations + 1
    /\ rSelectedImageId = id
    /\ id \in Ids(images)
    /\ ~Find(images, id).isGenerating
    /\ Find(images, id).sourceText # ""

\* The regeneration of the id waits for its request before and after the
\* step, which is not a toggle of the original.
WaitsThrough(id) ==
    /\ id \in Ids(images) /\ id \in Ids(images')
    /\ Find(images, id).sourceText # ""
    /\ Find(images, id).isGenerating
    /\ Find(images, id).processedImage # NoImage
    /\ RequestInFlight(pipelines, id) /\ RequestInFlight(pipelines', id)
    /\ Find(images', id).showOriginal = Find(images, id).showOriginal

\* C19: regenerate on a selected complete object made from text sets
\* isGenerating, adds exactly one request, built from the stored source
\* text, and the image drawn for the object stays the one drawn before,
\* at the regenerate and at every later step until the request resolves.
C19_RegenerateKeepsImageUntilResolved ==
    [][\A id \in 0..(MaxObjects - 1) :
         /\ RegenerateOn(id) =>
              LET old == Find(images, id)
                  new == Find(images', id)
                  n == Len(pipelines)
              IN  /\ new.isGenerating
                  /\ Len(pipelines') = n + 1
                  /\ SubSeq(pipelines', 1, n) = pipelines
                  /\ pipelines'[n + 1].id = id
                  /\ pipelines'[n + 1].kind = "text"
                  /\ pipelines'[n + 1].source = old.sourceText
                  /\ pipelines'[n + 1].stage = "generate"
                  /\ Shown(new, originalImageCache')
                       = Shown(old, originalImageCache)
         /\ WaitsThrough(id) =>
              Shown(Find(images', id), originalImageCache')
                = Shown(Find(images, id), originalImageCache)]_vars

\* An object made from text shows its original and is being regenerated,
\* its request still in flight.
C19_Witness ==
    \E i \in 1..Len(images) :
        /\ images[i].sourceText = "banana"
        /\ images[i].isGenerating
        /\ images[i].showOriginal
        /\ images[i].id \in originalImageCache
        /\ images[i].processedImage # NoImage
        /\ regenerations = 1
        /\ RequestInFlight(pipelines, images[i].id)

\* The step is the continuation of the drop suspended at position i.
Drops(i) ==
    /\ i \in 1..Len(pending)
    /\ pending[i].kind = "addImage"
    /\ pending' = RemoveAt(pending, i)

\* The step ends pipeline i, whose object was made by a drop and is in the
\* scene before and after: the generation resolved.
DropResolves(i) ==
    /\ i \in 1..Len(pipelines)
    /\ PipelineEnds(i)
    /\ InScene(pipelines[i].id)
    /\ pipelines[i].id \in Ids(images')
    /\ Find(images, pipelines[i].id).sourceFile \in Files

\* C20: an object made by a drop starts generating with a preview
\* thumbnail; when its generation resolves while it is in the scene it is
\* complete, has its processed image, is 375 wide and 375 / aspect ratio
\* high, has no preview url and at most 5 remix suggestions.
C20_DropThenResolve ==
    [][/\ \A i \in 1..MaxPending :
            Drops(i) =>
              /\ nextId \in Ids(images')
              /\ Find(images', nextId).isGenerating
              /\ Find(images', nextId).sourcePreviewUrl # NoId
              /\ nextId \in previewImageCache'
       /\ \A i \in 1..MaxObjects :
            DropResolves(i) =>
              LET img == Find(images', pipelines[i].id)
              IN  /\ ~img.isGenerating
                  /\ img.processedImage # NoImage
                  /\ img.width = R(IMAGE_WIDTH)
                  /\ RMul(img.height, R(img.processedImage[1]))
                       = RMul(R(IMAGE_WIDTH), R(img.processedImage[2]))
                  /\ img.sourcePreviewUrl = NoId
                  /\ img.remixSuggestions \in 0..5]_vars

\* A dropped image has resolved: 375 x 250 for a 3:2 image, five of the
\* seven suggested prompts kept.
C20_Witness ==
    \E i \in 1..Len(images) :
        /\ images[i].sourceFile \in Files
        /\ ~images[i].isGenerating
        /\ images[i].processedImage = WideImage
        /\ images[i].width = R(375)
        /\ images[i].height = R(250)
        /\ images[i].sourcePreviewUrl = NoId
        /\ images[i].remixSuggestions = 5

\* C21: a call of the transparency processor in which a load, the 2d
\* context, the pixel read or the load of the re-encoded image failed
\* resolves, with the original image and its full extent.
C21_ProcessorFailsGracefully ==
    (processing.stage \in {"resolved", "rejected"}
       /\ processing.failure # "none")
    => /\ processing.stage = "resolved"
       /\ processing.transparentImage = processing.image.data
       /\ processing.contentBounds = FullExtent(processing.image)

\* The call went through the pixel loops without a failure.
Processed ==
    /\ processing.stage \in {"encoding", "resolved"}
    /\ processing.failure = "none"

PixelX(k) == (k - 1) % processing.image.width
PixelY(k) == (k - 1) \div processing.image.width

\* The pixels that are opaque after the processing.
Opaque == {k \in 1..Len(processing.transparentImage) :
              processing.transparentImage[k][4] > 0}

\* The box encloses every opaque pixel and each of its four sides holds one.
MinimalBoxOf(box, pixelSet) ==
    /\ \A k \in pixelSet :
         /\ box.x <= PixelX(k) /\ PixelX(k) < box.x + box.width
         /\ box.y <= PixelY(k) /\ PixelY(k) < box.y + box.height
    /\ \E k \in pixelSet : PixelX(k) = box.x
    /\ \E k \in pixelSet : PixelX(k) = box.x + box.width - 1
    /\ \E k \in pixelSet : PixelY(k) = box.y
    /\ \E k \in pixelSet : PixelY(k) = box.y + box.height - 1

\* C22: the processor sets alpha to 0 for exactly the pixels whose squared
\* RGB distance to the top-left pixel is below 400 and leaves every other
\* pixel as it was; the box it returns is the minimal rectangle around the
\* pixels with alpha > 0, or the full extent when there is none.
C22_KeyedOutAndTightBox ==
    Processed
    => LET before == processing.image.data
           after == processing.transparentImage
       IN  /\ \A k \in 1..Len(before) :
                /\ after[k][1] = before[k][1]
                /\ after[k][2] = before[k][2]
                /\ after[k][3] = before[k][3]
                /\ after[k][4] = IF DistanceSquared(before[k], before[1]) < 400
                                 THEN 0 ELSE before[k][4]
           /\ IF Opaque = {}
              THEN processing.contentBounds = FullExtent(processing.image)
              ELSE MinimalBoxOf(processing.contentBounds, Opaque)

\* A white image with a near-white pixel, keyed out, and two black pixels
\* in the bottom row: the box is the right two thirds of that row.
C22_Witness ==
    /\ processing.stage = "resolved"
    /\ processing.failure = "none"
    /\ processing.image.data = <<White, NearWhite, White, White, Black, Black>>
    /\ processing.transparentImage[2][4] = 0
    /\ processing.contentBounds = Rect(1, 1, 2, 1)

\* Box a lies inside box b.
BoxInside(a, b) ==
    /\ b.x <= a.x /\ a.x + a.width <= b.x + b.width
    /\ b.y <= a.y /\ a.y + a.height <= b.y + b.height

\* The pixels a threshold leaves opaque.
OpaqueWith(img, threshold) ==
    {k \in 1..Len(img.data) : KeyedOut(img.data, threshold)[k][4] > 0}

\* C23 as stated: for thresholds t1 <= t2 the box computed with t2 is never
\* strictly inside the box computed with t1.
C23_LargerThresholdNeverShrinksBox ==
    Processed
    => \A t1 \in Thresholds, t2 \in Thresholds :
           t1 <= t2 =>
             LET b1 == BoundsWith(processing.image, t1)
                 b2 == BoundsWith(processing.image, t2)
             IN  ~(BoxInside(b2, b1) /\ b2 # b1)

\* C23 as amended: for thresholds t1 <= t2 the pixels left opaque with t2
\* are among those left opaque with t1, and the box computed with t2 lies
\* inside the box computed with t1, unless t2 leaves no pixel opaque, when
\* its box is the full image extent.
C23_LargerThresholdShrinksBoxOrFallsBack ==
    Processed
    => \A t1 \in Thresholds, t2 \in Thresholds :
           t1 <= t2 =>
             LET img == processing.image
             IN  /\ OpaqueWith(img, t2) \subseteq OpaqueWith(img, t1)
                 /\ IF OpaqueWith(img, t2) = {}
                    THEN BoundsWith(img, t2) = FullExtent(img)
                    ELSE BoxInside(BoundsWith(img, t2), BoundsWith(img, t1))

\* A processed image whose box is two pixels high with threshold 5, one
\* pixel with the code's 20, and the full extent with 450.
C23_Witness ==
    /\ processing.stage = "resolved"
    /\ processing.failure = "none"
    /\ processing.image.data = <<White, NearWhite, White, White, Black, White>>
    /\ BoundsWith(processing.image, 5) = Rect(1, 0, 1, 2)
    /\ processing.contentBounds = Rect(1, 1, 1, 1)
    /\ BoundsWith(processing.image, 450) = FullExtent(processing.image)

\* The foreground of the input: the opaque pixels at or beyond the
\* threshold from the top-left pixel.
Foreground ==
    LET data == processing.image.data
    IN  {k \in 1..Len(data) :
            /\ data[k][4] > 0
            /\ DistanceSquared(data[k], data[1])
                 >= COLOR_DISTANCE_THRESHOLD * COLOR_DISTANCE_THRESHOLD}

\* Every pixel is the top-left colour or foreground.
SolidBackground ==
    LET data == processing.image.data
    IN  \A k \in 1..Len(data) : data[k] = data[1] \/ k \in Foreground

AllWithinThreshold ==
    LET data == processing.image.data
    IN  \A k \in 1..Len(data) :
            DistanceSquared(data[k], data[1])
              < COLOR_DISTANCE_THRESHOLD * COLOR_DISTANCE_THRESHOLD

StrictlySmallerThanImage(box) ==
    /\ BoxInside(box, FullExtent(processing.image))
    /\ box # FullExtent(processing.image)

\* The first or last row or column of the frame holds no foreground pixel.
SomeEdgeIsBackground ==
    \/ \A k \in Foreground : PixelX(k) # 0
    \/ \A k \in Foreground : PixelX(k) # processing.image.width - 1
    \/ \A k \in Foreground : PixelY(k) # 0
    \/ \A k \in Foreground : PixelY(k) # processing.image.height - 1

\* C24 as stated: on a solid background equal to the top-left pixel the
\* box is strictly smaller than the image whenever the foreground pixels
\* are fewer than the pixels of the frame, and it is the full frame when
\* every pixel is within the threshold.
C24_BoxSmallerThanFrame ==
    Processed
    => /\ (/\ SolidBackground
           /\ Foreground # {}
           /\ Cardinality(Foreground) < Len(processing.image.data))
          => StrictlySmallerThanImage(processing.contentBounds)
       /\ AllWithinThreshold
          => processing.contentBounds = FullExtent(processing.image)

\* C24 as amended: on a solid background equal to the top-left pixel the
\* box is strictly smaller than the image whenever the foreground leaves
\* the first or last row or column of the frame empty, and it is the full
\* frame when every pixel is within the threshold.
C24_BoxSmallerWhenAnEdgeIsBackground ==
    Processed
    => /\ (/\ SolidBackground
           /\ Foreground # {}
           /\ SomeEdgeIsBackground)
          => StrictlySmallerThanImage(processing.contentBounds)
       /\ AllWithinThreshold
          => processing.contentBounds = FullExtent(processing.image)

\* A white image with one black pixel in the middle of the bottom row.
C24_Witness ==
    /\ processing.stage = "resolved"
    /\ processing.failure = "none"
    /\ processing.image.data = <<White, White, White, White, Black, White>>
    /\ SolidBackground
    /\ processing.contentBounds = Rect(1, 1, 1, 1)


\* The step is a press (mouse down) at the screen point.
PressAt(screen) == handleMouseDown({screen})

\* C25: a press that hits object o selects o, starts a drag of o and moves
\* o to the end of the scene order; the set of objects, every object's
\* fields and the relative order of the other objects are unchanged, and
\* so is the view transform.
C25_PressOnObjectSelectsAndRaises ==
    [][\A screen \in HitPoints :
          LET o == getImageAtPosition(screen)
          IN  (o # Null /\ PressAt(screen)) =>
                  /\ selectedImageId' = o.id
                  /\ draggingImage' # Null
                  /\ draggingImage'.id = o.id
                  /\ Len(images') > 0
                  /\ images'[Len(images')].id = o.id
                  /\ Ids(images') = Ids(images)
                  /\ Len(images') = Len(images)
                  /\ \A id \in Ids(images) :
                         Find(images', id) = Find(images, id)
                  /\ Without(images', o.id) = Without(images, o.id)
                  /\ viewTransform' = viewTransform]_vars


\* C26: a press that hits no object clears the selection and starts
\* panning from the pressed point; the scene (every object and the order)
\* and the view transform are unchanged.
C26_PressOnCanvasClearsAndPans ==
    [][\A screen \in HitPoints :
          (getImageAtPosition(screen) = Null /\ PressAt(screen)) =>
              /\ selectedImageId' = NoId
              /\ isPanning'
              /\ panStart' = screen
              /\ images' = images
              /\ viewTransform' = viewTransform]_vars

\* Two completed objects are in the scene and a press in their padding has
\* cleared the selection and started the pan.
C26_Witness ==
    /\ Len(images) = 2
    /\ \A i \in 1..2 : ~images[i].isGenerating
    /\ rImages = images
    /\ isPanning
    /\ panStart = PaddingPoint
    /\ selectedImageId = NoId
    /\ draggingImage = Null


\* The step is a mouse move to the screen point.
MoveTo(screen) == handleMouseMove({screen})

\* C27: while an object is dragged, after every move event the origin of
\* the object is the world position of the pointer minus the offset fixed
\* at the press, the offset is kept for the next move, and every other
\* object is unchanged.
C27_DraggedObjectFollowsPointer ==
    [][\A screen \in ScreenPoints :
          (draggingImage # Null /\ MoveTo(screen)) =>
              /\ draggingImage' = draggingImage
              /\ Len(images') = Len(images)
              /\ \A i \in 1..Len(images) :
                    IF images[i].id = draggingImage.id
                    THEN /\ images'[i].x =
                              RSub(WorldX(R(screen[1]), viewTransform'),
                                   draggingImage.offsetX)
                         /\ images'[i].y =
                              RSub(WorldY(R(screen[2]), viewTransform'),
                                   draggingImage.offsetY)
                         /\ images'[i] = [images[i] EXCEPT
                                             !.x = images'[i].x,
                                             !.y = images'[i].y]
                    ELSE images'[i] = images[i]]_vars

\* Two objects are in the scene, the view is zoomed, and the object on top
\* has been dragged away from the other, which stays where it was made; the
\* grabbed point is under the pointer.
C27_Witness ==
    /\ Len(images) = 2
    /\ draggingImage # Null
    /\ draggingImage.id = images[2].id
    /\ gestures = 2
    /\ viewTransform.scale # R(1)
    /\ images[2].x # images[1].x
    /\ \E screen \in ScreenPoints :
         /\ RAdd(images[2].x, draggingImage.offsetX) =
              WorldX(R(screen[1]), viewTransform)
         /\ RAdd(images[2].y, draggingImage.offsetY) =
              WorldY(R(screen[2]), viewTransform)


\* The view offset less the last pointer position: what a pan that adds
\* the raw pointer displacement leaves unchanged.
PanAnchor(vt, pointer) ==
    <<RSub(vt.offsetX, R(pointer[1])), RSub(vt.offsetY, R(pointer[2]))>>

\* C28: while panning, every move event adds the screen-space displacement
\* of the pointer since the last event to the view offset, whatever the
\* view scale, and records the pointer: the offset is the offset at the
\* press plus the total displacement since.  The view scale and every
\* object are unchanged.
C28_PanAddsPointerDisplacement ==
    [][\A screen \in ScreenPoints :
          (draggingImage = Null /\ isPanning /\ MoveTo(screen)) =>
              /\ panStart' = screen
              /\ PanAnchor(viewTransform', screen) =
                     PanAnchor(viewTransform, panStart)
              /\ viewTransform'.scale = viewTransform.scale
              /\ isPanning'
              /\ images' = images]_vars

\* The view was zoomed about the far point, a press there, away from the
\* completed object, started the pan, and a move took the pointer to the
\* canvas centre: the view offset is the offset of the zoom plus the
\* displacement of the pointer, in screen units.
C28_Witness ==
    /\ Len(images) = 1
    /\ ~images[1].isGenerating
    /\ rImages = images
    /\ isPanning
    /\ draggingImage = Null
    /\ panStart = CanvasCentre
    /\ viewTransform.scale # R(1)
    /\ LET zoomed == WheelZoomed(InitialViewTransform, FarPoint, 1)
       IN  /\ viewTransform.offsetX =
                RAdd(zoomed.offsetX, R(CanvasCentre[1] - FarPoint[1]))
           /\ viewTransform.offsetY =
                RAdd(zoomed.offsetY, R(CanvasCentre[2] - FarPoint[2]))


\* The step is the start of a two-finger gesture with its midpoint at the
\* screen point.
PinchStartsAt(mid) == TouchStartTwo({mid}, TouchDistances)

\* The step is a touch-move of a two-finger gesture.
PinchMoves == TouchMoveTwo(ScreenPoints, TouchDistances)

\* Only the x, y, width and height of the object differ.
SameButGeometry(before, after) ==
    after = [before EXCEPT !.x = after.x, !.y = after.y,
                           !.width = after.width, !.height = after.height]

\* C29: a two-finger gesture whose midpoint hits a non-generating object
\* enters object-pinch mode for that object, and any other enters
\* canvas-pinch mode; a touch-move in object-pinch mode changes only the x,
\* y, width and height of that object, no other object and not the view
\* transform, and a touch-move in canvas-pinch mode changes no object.
C29_PinchModeSeparatesObjectAndView ==
    [][/\ \A mid \in ScreenPoints :
            PinchStartsAt(mid) =>
                LET o == getImageAtPosition(mid)
                IN  IF o # Null /\ ~o.isGenerating
                    THEN pinchState'.target = "object" /\ pinchState'.id = o.id
                    ELSE pinchState'.target = "canvas"
       /\ PinchMoves =>
            IF pinchState.target = "object"
            THEN /\ viewTransform' = viewTransform
                 /\ Len(images') = Len(images)
                 /\ \A i \in 1..Len(images) :
                       IF images[i].id = pinchState.id
                       THEN SameButGeometry(images[i], images'[i])
                       ELSE images'[i] = images[i]
            ELSE images' = images]_vars

\* Two completed objects are in the scene and an object pinch has made the
\* one on top wider than the other.
C29_Witness ==
    /\ Len(images) = 2
    /\ \A i \in 1..2 : ~images[i].isGenerating
    /\ pinchState # Null
    /\ pinchState.target = "object"
    /\ pinchState.id = images[2].id
    /\ touches = 2
    /\ gestures > 0
    /\ RLt(images[1].width, images[2].width)


\* The controller is Idle: no drag, no pan and no pinch is active.
Idle == draggingImage = Null /\ ~isPanning /\ pinchState = Null

\* The step is a touch end (or cancel) that leaves the given number of
\* touches.
TouchEndLeaves(left) == handleTouchEnd /\ touches' = left

\* C30: after a mouse release (or leave) no drag and no pan is active, and
\* after a touch end that leaves fewer than two touches no drag, no pan and
\* no pinch is active, whatever the state before.
C30_ReleaseReturnsToIdle ==
    [][/\ handleMouseUp => (draggingImage' = Null /\ ~isPanning')
       /\ \A left \in 0..1 : TouchEndLeaves(left) => Idle']_vars


\* One touch remains on the canvas, over a completed object, and the
\* controller is Idle: a release has ended the drag, pan or pinch that the
\* touches had started.
C30_Witness ==
    /\ Len(images) = 1
    /\ ~images[1].isGenerating
    /\ touches = 1
    /\ Idle


\* The number of the modes 'a drag is active', 'a pan is active' and 'a
\* pinch is active' that hold.
ActiveModes ==
    Cardinality({m \in {"drag", "pan", "pinch"} :
                    \/ m = "drag" /\ draggingImage # Null
                    \/ m = "pan" /\ isPanning
                    \/ m = "pinch" /\ pinchState # Null})

\* C31: in every reachable state at most one of 'a drag is active', 'a pan
\* is active' and 'a pinch is active' holds: the controller is in exactly
\* one of Idle, Panning, DraggingObject, PinchingObject, PinchingCanvas.
C31_OneControllerState == ActiveModes <= 1


\* The step is a wheel event or a touch-move of a two-finger gesture.
ScalingStep ==
    \/ handleWheel(ScreenPoints, ScaleDirections)
    \/ TouchMoveTwo(ScreenPoints, TouchDistances)

\* C32: a wheel or pinch scaling step never changes the width or the height
\* of an object whose isGenerating is true when the step is taken.
C32_NoScalingWhileGenerating ==
    [][ScalingStep =>
          \A i \in 1..Len(images) :
              images[i].isGenerating =>
                  /\ i <= Len(images')
                  /\ images'[i].width = images[i].width
                  /\ images'[i].height = images[i].height]_vars


\* The step is a wheel event at the screen point, up (1) or down (-1).
WheelAt(screen, scaleDirection) == handleWheel({screen}, {scaleDirection})

\* The width after one wheel notch: times 1.1 or 0.9, within [50, 1000].
NotchedWidth(width, scaleDirection) ==
    LET w == RMul(width, IF scaleDirection = 1 THEN <<11, 10>> ELSE <<9, 10>>)
    IN  RMax(R(MIN_WIDTH), RMin(R(MAX_WIDTH), w))

\* C33: a wheel scaling step on an object multiplies its width by 1.1 (up)
\* or 0.9 (down) and clamps it to [50, 1000], sets the height so that
\* width / height is unchanged, and keeps the centre of the object where it
\* was, also when the width was clamped.
C33_WheelScalesAboutCentre ==
    [][\A screen \in ScreenPoints, scaleDirection \in ScaleDirections :
          LET o == getImageAtPosition(screen)
          IN  (o # Null /\ ~o.isGenerating
                 /\ WheelAt(screen, scaleDirection)) =>
                  \A i \in 1..Len(images) :
                      images[i].id = o.id =>
                          LET before == images[i]
                              after == images'[i]
                          IN  /\ after.width =
                                   NotchedWidth(before.width, scaleDirection)
                              /\ RMul(after.width, before.height) =
                                   RMul(after.height, before.width)
                              /\ RAdd(after.x, RHalf(after.width)) =
                                   RAdd(before.x, RHalf(before.width))
                              /\ RAdd(after.y, RHalf(after.height)) =
                                   RAdd(before.y, RHalf(before.height))]_vars

\* A completed object of width 1000 (the result of a pinch) has been turned
\* down one notch by the wheel, to 900, about the point where it was made.
C33_Witness ==
    /\ Len(images) = 1
    /\ ~images[1].isGenerating
    /\ gestures = 2
    /\ images[1].width = R(900)
    /\ RAdd(images[1].x, RHalf(images[1].width)) = R(CanvasCentre[1])
    /\ RAdd(images[1].y, RHalf(images[1].height)) = R(CanvasCentre[2])


\* The view scale after one wheel notch: times or divided by 1.1, within
\* [MIN_SCALE, MAX_SCALE].
NotchedScale(scale, scaleDirection) ==
    LET s == IF scaleDirection = 1 THEN RMul(scale, <<11, 10>>)
             ELSE RDiv(scale, <<11, 10>>)
    IN  RMax(MIN_SCALE, RMin(MAX_SCALE, s))

\* The wheel event over a non-generating object: only the geometry of that
\* object changes, and the view transform is unchanged.
WheelOverObjectScalesIt(o) ==
    /\ viewTransform' = viewTransform
    /\ Len(images') = Len(images)
    /\ \A i \in 1..Len(images) :
          IF images[i].id = o.id
          THEN SameButGeometry(images[i], images'[i])
          ELSE images'[i] = images[i]

\* The wheel event zooms the view by one notch and changes no object.
WheelZoomsView(scaleDirection) ==
    /\ viewTransform'.scale = NotchedScale(viewTransform.scale, scaleDirection)
    /\ images' = images

\* C34 as stated: in every controller state, a wheel event over a
\* non-generating object changes only the geometry of that object and
\* leaves the view transform unchanged, and a wheel event that hits no
\* object zooms the view by one notch and leaves every object unchanged.
C34_WheelTargetsObjectOrView ==
    [][\A screen \in ScreenPoints, scaleDirection \in ScaleDirections :
          LET o == getImageAtPosition(screen)
          IN  /\ (o # Null /\ ~o.isGenerating) =>
                    /\ WheelBranch(screen) = "object"
                    /\ WheelAt(screen, scaleDirection)
                         => WheelOverObjectScalesIt(o)
              /\ o = Null =>
                    /\ WheelBranch(screen) = "canvas"
                    /\ WheelAt(screen, scaleDirection)
                         => WheelZoomsView(scaleDirection)]_vars

\* C34, amended: a wheel event over a non-generating object changes only
\* the geometry of that object and leaves the view transform unchanged, in
\* every controller state; a wheel event that hits no object zooms the view
\* by one notch and leaves every object unchanged when no drag and no pan
\* is active, and changes nothing while a drag or a pan is active.
C34_WheelZoomsViewUnlessDragOrPan ==
    [][\A screen \in ScreenPoints, scaleDirection \in ScaleDirections :
          LET o == getImageAtPosition(screen)
          IN  /\ (o # Null /\ ~o.isGenerating) =>
                    /\ WheelBranch(screen) = "object"
                    /\ WheelAt(screen, scaleDirection)
                         => WheelOverObjectScalesIt(o)
              /\ (o = Null /\ draggingImage = Null /\ ~isPanning) =>
                    /\ WheelBranch(screen) = "canvas"
                    /\ WheelAt(screen, scaleDirection)
                         => WheelZoomsView(scaleDirection)
              /\ (o = Null /\ (draggingImage # Null \/ isPanning)) =>
                    /\ WheelBranch(screen) = "none"
                    /\ ~WheelAt(screen, scaleDirection)]_vars

\* The object was scaled by the wheel while it was being dragged, and the
\* view was zoomed out by the wheel, away from the object, with no drag and
\* no pan active: the view is at scale 1 / 1.1 and the object is 900 / 1000
\* of the width it was completed with.
C34_Witness ==
    /\ Len(images) = 1
    /\ ~images[1].isGenerating
    /\ gestures = 2
    /\ viewTransform.scale = <<10, 11>>
    /\ images[1].width = RMul(R(375), <<9, 10>>)


\* The object moved by 25 / scale world units along one axis, and by
\* nothing else.
MovedOneStep(before, after) ==
    LET step == RDiv(R(25), viewTransform.scale)
    IN  \/ after = [before EXCEPT !.x = RAdd(before.x, step)]
        \/ after = [before EXCEPT !.x = RSub(before.x, step)]
        \/ after = [before EXCEPT !.y = RAdd(before.y, step)]
        \/ after = [before EXCEPT !.y = RSub(before.y, step)]

\* The selection the key handler sees is empty, is not in the scene, or is
\* generating.
NothingToMove ==
    \/ rSelectedImageId = NoId
    \/ rSelectedImageId \notin Ids(images)
    \/ Find(images, rSelectedImageId).isGenerating

\* C35: an arrow key moves the selected object by exactly 25 / scale world
\* units along one axis and changes nothing else (no other object, not the
\* selection, the view or the controller); with no selection, with a
\* selected id that is not in the scene, or with a selected object that is
\* generating, the key press leaves the scene unchanged.
C35_ArrowKeyMovesSelectedOneStep ==
    [][handleKeyArrow =>
          /\ <<selectedImageId, viewTransform, draggingImage, isPanning,
               pinchState>>' =
             <<selectedImageId, viewTransform, draggingImage, isPanning,
               pinchState>>
          /\ Len(images') = Len(images)
          /\ \A i \in 1..Len(images) :
                IF images[i].id = rSelectedImageId /\ ~NothingToMove
                THEN MovedOneStep(images[i], images'[i])
                ELSE images'[i] = images[i]]_vars

\* The view is zoomed out one notch and an arrow key has moved the
\* selected, completed object by 25 * 1.1 world units to the right of where
\* it was made.
C35_Witness ==
    /\ Len(images) = 1
    /\ ~images[1].isGenerating
    /\ selectedImageId = images[1].id
    /\ viewTransform.scale = <<10, 11>>
    /\ gestures = 2
    /\ RAdd(images[1].x, RHalf(images[1].width)) =
         RAdd(R(CanvasCentre[1]), <<55, 2>>)
    /\ RAdd(images[1].y, RHalf(images[1].height)) = R(CanvasCentre[2])


\* The step resumes the remix suspended at position i and adds its object.
RemixApplies(i) ==
    /\ pending[i].kind = "remixToFile"
    /\ pending' = RemoveAt(pending, i)
    /\ images' # images

\* C36: a remix never modifies or removes an object of the scene, its
\* source included: it appends exactly one object, last in the order, with
\* a fresh id, isVariation and isGenerating true, the processed image of
\* the source and the position of the source plus (40, 20), selects it, and
\* starts exactly one generation, for the new id.  The source is the
\* selected object as the remix was requested.
C36_RemixAppendsOneVariation ==
    [][/\ \A i \in 1..Len(pending) :
            RemixApplies(i) =>
                LET source == pending[i].image
                    new == images'[Len(images')]
                IN  /\ Len(images') = Len(images) + 1
                    /\ SubSeq(images', 1, Len(images)) = images
                    /\ new.id \notin Ids(images)
                    /\ \A k \in 1..Len(pipelines) : pipelines[k].id # new.id
                    /\ new.isVariation /\ new.isGenerating
                    /\ new.processedImage = source.processedImage
                    /\ new.x = RAdd(source.x, R(40))
                    /\ new.y = RAdd(source.y, R(20))
                    /\ selectedImageId' = new.id
                    /\ Len(pipelines') = Len(pipelines) + 1
                    /\ SubSeq(pipelines', 1, Len(pipelines)) = pipelines
                    /\ pipelines'[Len(pipelines')].id = new.id
       /\ (handleRemixSubmit \/ handleRemixSubmitDrawsId
             \/ handleRemixSubmitFails)
            => (images' = images /\ pipelines' = pipelines)]_vars

\* The variation of object 0 is last in the scene and selected, offset by
\* (40, 20) from the completed source behind it; one generation is in
\* flight, for the variation.
C36_Witness ==
    /\ Len(images) = 2
    /\ images[1].id = 0 /\ ~images[1].isGenerating
    /\ images[2].id = 1 /\ images[2].isVariation /\ images[2].isGenerating
    /\ images[2].x = RAdd(images[1].x, R(40))
    /\ images[2].y = RAdd(images[1].y, R(20))
    /\ images[2].processedImage = images[1].processedImage
    /\ selectedImageId = 1
    /\ Len(pipelines) = 1
    /\ pipelines[1].id = 1


\* C37: the object a press (or the start of an object pinch) moves to the
\* front is the object of that id as it is in the scene at that moment: the
\* press never puts back an object that a failed generation removed and
\* never reverts an object to the fields it had before its completion.
C37_PressReappendsCurrentObject ==
    [][\A screen \in ScreenPoints :
          LET o == getImageAtPosition(screen)
          IN  (o # Null /\ (PressAt(screen) \/ PinchStartsAt(screen))
                 /\ images' # images) =>
                  /\ o.id \in Ids(images)
                  /\ images'[Len(images')] = Find(images, o.id)]_vars


\* C38: in every reachable state the selected id is empty or is the id of
\* an object of the scene.
C38_SelectionInScene ==
    selectedImageId = NoId \/ selectedImageId \in Ids(images)


\* The step resumes the duplicate suspended at position i.
DuplicateApplies(i) ==
    /\ pending[i].kind = "duplicate"
    /\ pending' = RemoveAt(pending, i)

\* C39: a duplicate leaves every object of the scene unchanged, the
\* original included, and appends exactly one object, last in the order,
\* that copies every field of the original except the id, which is fresh,
\* and the position, which is offset by (40, 20); the copy is selected, is
\* not generating, has an original-image cache entry exactly when the
\* original has one, and no generation is started.  The original is the
\* selected object as the duplicate was requested.
C39_DuplicateAppendsOneCopy ==
    [][/\ \A i \in 1..Len(pending) :
            DuplicateApplies(i) =>
                LET original == pending[i].image
                    copy == images'[Len(images')]
                IN  /\ Len(images') = Len(images) + 1
                    /\ SubSeq(images', 1, Len(images)) = images
                    /\ copy.id \notin Ids(images)
                    /\ copy.id # original.id
                    /\ copy = [original EXCEPT
                                  !.id = copy.id,
                                  !.x = RAdd(original.x, R(40)),
                                  !.y = RAdd(original.y, R(20))]
                    /\ ~copy.isGenerating
                    /\ selectedImageId' = copy.id
                    /\ (copy.id \in originalImageCache')
                         <=> (original.id \in originalImageCache)
                    /\ originalImageCache' \ {copy.id} = originalImageCache
                    /\ pipelines' = pipelines
       /\ handleDuplicateSelected
            => (images' = images /\ pipelines' = pipelines)]_vars

\* The copy of the completed object 0 is last in the scene and selected,
\* equal to the original but for its id and its offset of (40, 20); both
\* have an entry in the original-image cache and no generation is in flight.
C39_Witness ==
    /\ Len(images) = 2
    /\ images[1].id = 0 /\ ~images[1].isGenerating
    /\ images[2] = [images[1] EXCEPT !.id = 1,
                                     !.x = RAdd(images[1].x, R(40)),
                                     !.y = RAdd(images[1].y, R(20))]
    /\ selectedImageId = 1
    /\ {0, 1} \subseteq originalImageCache
    /\ pipelines = <<>>

=============================================================================
